---------------------------- MODULE Spec2Model ----------------------------
(***************************************************************************)
(* Decision-and-replay pipeline of coinbot-server: the portfolio ledger    *)
(* (BacktestPortfolioManager), the decision engine (SignalGenerator with   *)
(* IndicatorCalculator and ScoreCalculator) and the replay simulator       *)
(* (Backtester with BacktestStrategyOrchestrator and BacktestDataManager). *)
(*                                                                         *)
(* JavaScript numbers are modelled as exact rationals [n |-> numerator,    *)
(* d |-> denominator] in lowest terms with d > 0; d = 0 encodes the IEEE   *)
(* specials (n = 1: +Infinity, n = -1: -Infinity, n = 0: NaN).  Rounding   *)
(* of binary floating point is not modelled.                               *)
(*                                                                         *)
(* An optional value (undefined / null / absent key) is a sequence of      *)
(* length at most one: << >> is "absent", <<v>> is "present with value v". *)
(***************************************************************************)
EXTENDS Integers, Sequences, FiniteSets, TLC

VARIABLES
    \* ---- BacktestPortfolioManager (the ledger) ----
    initialBalance,   \* this.initialBalance
    currentBalance,   \* this.currentBalance
    feeRate,          \* this.feeRate
    positions,        \* this.positions : Map market -> BacktestPosition
    trades,           \* this.trades    : BacktestTrade[]
    marketPrices,     \* this.marketPrices : Map market -> price
    lastCall,         \* the last ledger or RiskManager call: arguments and return value
    \* ---- SignalGenerator.generateSignal, one evaluation ----
    sigIn,            \* the arguments of the call
    sigOut,           \* what the call returned (<< >> before the call)
    \* ---- Backtester.run ----
    run,              \* the locals of run(): candles, loop index, counters, ...
    \* ---- the live server ----
    bot,              \* TradingBot: isRunningCycle, the timer, the cycles in progress
    signalLogs,       \* signalLog.service: the log file of one market
    mock              \* MockUpbitAPI: mockAccounts, mockOrders

ledgerVars == <<initialBalance, currentBalance, feeRate, positions, trades, marketPrices>>
liveVars == <<bot, signalLogs, mock>>
vars == <<initialBalance, currentBalance, feeRate, positions, trades, marketPrices,
          lastCall, sigIn, sigOut, run, bot, signalLogs, mock>>

-----------------------------------------------------------------------------
(* Numbers *)

Abs(x) == IF x < 0 THEN -x ELSE x

RECURSIVE GCD(_, _)
GCD(a, b) == IF b = 0 THEN a ELSE GCD(b, a % b)

Sign(x) == IF x > 0 THEN 1 ELSE IF x < 0 THEN -1 ELSE 0

\* the number n/d in canonical form (d = 0 gives +Infinity, -Infinity or NaN)
Num(n, d) ==
    IF d = 0 THEN [n |-> Sign(n), d |-> 0]
    ELSE LET g == GCD(Abs(n), Abs(d))
         IN  [n |-> (Sign(d) * n) \div g, d |-> Abs(d) \div g]

I(i) == [n |-> i, d |-> 1]
NaN == [n |-> 0, d |-> 0]
PosInf == [n |-> 1, d |-> 0]
NegInf == [n |-> -1, d |-> 0]
IsNaN(a) == a.d = 0 /\ a.n = 0
IsFinite(a) == a.d # 0

RNeg(a) == [n |-> -a.n, d |-> a.d]

RAdd(a, b) ==
    IF IsNaN(a) \/ IsNaN(b) THEN NaN
    ELSE IF a.d = 0 /\ b.d = 0 THEN (IF a.n = b.n THEN a ELSE NaN)
    ELSE IF a.d = 0 THEN a
    ELSE IF b.d = 0 THEN b
    ELSE LET g == GCD(a.d, b.d)
         IN  Num(a.n * (b.d \div g) + b.n * (a.d \div g), (a.d \div g) * b.d)

RSub(a, b) == RAdd(a, RNeg(b))

\* common factors are cancelled before multiplying, which keeps the products small
RMul(a, b) ==
    IF a.d = 0 \/ b.d = 0 \/ a.n = 0 \/ b.n = 0 THEN Num(a.n * b.n, a.d * b.d)
    ELSE LET g == GCD(Abs(a.n), b.d)
             h == GCD(Abs(b.n), a.d)
         IN  Num((a.n \div g) * (b.n \div h), (a.d \div h) * (b.d \div g))

Recip(b) ==
    IF b.d = 0 THEN (IF b.n = 0 THEN NaN ELSE I(0))
    ELSE IF b.n = 0 THEN PosInf
    ELSE Num(b.d, b.n)

RDiv(a, b) == RMul(a, Recip(b))

RLt(a, b) ==
    IF IsNaN(a) \/ IsNaN(b) THEN FALSE
    ELSE IF a.d = 0 /\ b.d = 0 THEN a.n < b.n
    ELSE IF a.d = 0 \/ b.d = 0 THEN a.n * b.d < b.n * a.d
    ELSE LET g == GCD(a.d, b.d)
         IN  a.n * (b.d \div g) < b.n * (a.d \div g)

REq(a, b) == ~IsNaN(a) /\ ~IsNaN(b) /\ a = b
RLe(a, b) == RLt(a, b) \/ REq(a, b)
RGt(a, b) == RLt(b, a)
RGe(a, b) == RLe(b, a)

\* Math.min / Math.max of two numbers
RMin(a, b) == IF IsNaN(a) \/ IsNaN(b) THEN NaN ELSE IF RLt(b, a) THEN b ELSE a
RMax(a, b) == IF IsNaN(a) \/ IsNaN(b) THEN NaN ELSE IF RLt(a, b) THEN b ELSE a

RFloor(a) == IF a.d = 0 THEN a ELSE I(a.n \div a.d)
\* Math.round: the nearest integer, halves rounded up
RRound(a) == IF a.d = 0 THEN a ELSE RFloor(RAdd(a, Num(1, 2)))

\* JavaScript truthiness of a number, as used by "x || fallback"
Truthy(a) == ~IsNaN(a) /\ a # I(0)

\* optional values
None == << >>
Some(v) == <<v>>
IsSome(o) == o # << >>
Get(o) == o[1]
\* "o ?? fallback" for an optional number (fallback on undefined only)
OrDefault(o, fallback) == IF IsSome(o) THEN Get(o) ELSE fallback
\* "o || fallback" for an optional number (fallback on undefined, 0 and NaN)
OrElse(o, fallback) == IF IsSome(o) /\ Truthy(Get(o)) THEN Get(o) ELSE fallback

\* Map helpers (a Map is a function whose domain is the set of its keys)
EmptyMap == [k \in {} |-> 0]
MapHas(f, k) == k \in DOMAIN f
MapSet(f, k, v) == [x \in (DOMAIN f) \cup {k} |-> IF x = k THEN v ELSE f[x]]
MapDelete(f, k) == [x \in (DOMAIN f) \ {k} |-> f[x]]

\* decimal strings: Number.prototype.toString and parseFloat
toString(x) == [numeral |-> x]
parseFloat(s) == s.numeral


-----------------------------------------------------------------------------
(* BacktestPortfolioManager: the portfolio ledger                          *)
(*                                                                         *)
(* Volumes are counted in units of 1e-8 of the asset (the ledger's         *)
(* epsilon) and prices in KRW per such unit, so that price * volume is an  *)
(* amount in KRW.  A position's baseCurrency / quoteCurrency (fixed       *)
(* substrings of its market key) are left out.                             *)

BID == "bid"
ASK == "ask"
LIMIT == "limit"
MARKET == "market"

\* "position.volume <= 1e-8": 1e-8 in the model's volume unit
VolumeEpsilon == 1

\* the ledger object as one value
Ledger ==
    [initialBalance |-> initialBalance, currentBalance |-> currentBalance,
     feeRate |-> feeRate, positions |-> positions, trades |-> trades,
     marketPrices |-> marketPrices]

\* constructor(initialBalance, baseCurrency, feeRate)
newLedger(initBal, rate) ==
    [initialBalance |-> initBal, currentBalance |-> initBal, feeRate |-> rate,
     positions |-> EmptyMap, trades |-> << >>, marketPrices |-> EmptyMap]

\* a reset that leaves the trade log
reset_KeepsTrades(L) ==
    [L EXCEPT !.currentBalance = L.initialBalance,
              !.positions = EmptyMap,
              !.marketPrices = EmptyMap]

\* lines 40-48
reset(L) ==
    [L EXCEPT !.currentBalance = L.initialBalance,
              !.positions = EmptyMap,
              !.trades = << >>,
              !.marketPrices = EmptyMap]

getTrades(L) == L.trades

getPosition(L, market) ==
    IF MapHas(L.positions, market) THEN Some(L.positions[market]) ELSE None

updateMarketPrice(L, market, price) ==
    LET withPrice == [L EXCEPT !.marketPrices = MapSet(L.marketPrices, market, price)]
    IN  IF MapHas(L.positions, market)
        THEN LET position == L.positions[market]
                 valued == [position EXCEPT
                              !.currentPrice = Some(price),
                              !.currentValue = Some(RMul(position.volume, price))]
                 marked ==
                     IF RGt(position.averageEntryPrice, I(0))
                     THEN [valued EXCEPT
                             !.profit = Some(RMul(RSub(price, position.averageEntryPrice),
                                                  position.volume)),
                             !.profitRate = Some(RSub(RDiv(price, position.averageEntryPrice),
                                                      I(1)))]
                     ELSE valued
             IN  [withPrice EXCEPT !.positions[market] = marked]
        ELSE withPrice

RECURSIVE sumPositionValues(_, _)
sumPositionValues(L, markets) ==
    IF markets = {} THEN I(0)
    ELSE LET m == CHOOSE x \in markets : TRUE
             position == L.positions[m]
             currentPrice ==
                 IF MapHas(L.marketPrices, m) /\ Truthy(L.marketPrices[m])
                 THEN L.marketPrices[m]
                 ELSE position.averageEntryPrice
         IN  RAdd(RMul(position.volume, currentPrice),
                  sumPositionValues(L, markets \ {m}))

getTotalAssetValue(L) ==
    RAdd(L.currentBalance, sumPositionValues(L, DOMAIN L.positions))

\* recordTrade, lines 116-126: the execution price, absent for an unsupported order
resolvePrice(order, currentCandle) ==
    IF order.ord_type = LIMIT /\ IsSome(order.price)
    THEN Some(parseFloat(Get(order.price)))
    ELSE IF order.ord_type = MARKET
    THEN Some(currentCandle.trade_price)
    ELSE None

\* line 128
invalidVolumeOrPrice(volume, price) == RLe(volume, I(0)) \/ RLe(price, I(0))

\* a boundary slip: a buy that costs exactly the cash at hand is refused
insufficientBalance_Le(balance, amount, fee) == RLe(balance, RAdd(amount, fee))

\* line 143
insufficientBalance(balance, amount, fee) == RLt(balance, RAdd(amount, fee))

\* lines 149-155
positionOrNew(L, market) ==
    IF MapHas(L.positions, market) THEN L.positions[market]
    ELSE [market |-> market, volume |-> I(0), averageEntryPrice |-> I(0),
          currentPrice |-> None, currentValue |-> None,
          profit |-> None, profitRate |-> None]

\* a slip: the old average is weighted with the new total volume
newAverageEntryPrice_NewWeight(position, amount, newTotalVolume) ==
    RDiv(RAdd(RMul(position.averageEntryPrice, newTotalVolume), amount),
         newTotalVolume)

\* lines 158-160
newAverageEntryPrice(position, amount, newTotalVolume) ==
    RDiv(RAdd(RMul(position.averageEntryPrice, position.volume), amount),
         newTotalVolume)

\* a slip: the fee of a buy is taken twice from the cash
applyBuy_FeeTwice(L, market, volume, amount, fee) ==
    LET position == positionOrNew(L, market)
        newTotalVolume == RAdd(position.volume, volume)
        bought == [position EXCEPT
                     !.averageEntryPrice =
                         newAverageEntryPrice(position, amount, newTotalVolume),
                     !.volume = newTotalVolume]
    IN  [L EXCEPT !.currentBalance = RSub(L.currentBalance,
                                          RAdd(amount, RAdd(fee, fee))),
                  !.positions = MapSet(L.positions, market, bought)]

\* lines 147-162
applyBuy(L, market, volume, amount, fee) ==
    LET position == positionOrNew(L, market)
        newTotalVolume == RAdd(position.volume, volume)
        bought == [position EXCEPT
                     !.averageEntryPrice =
                         newAverageEntryPrice(position, amount, newTotalVolume),
                     !.volume = newTotalVolume]
    IN  [L EXCEPT !.currentBalance = RSub(L.currentBalance, RAdd(amount, fee)),
                  !.positions = MapSet(L.positions, market, bought)]

\* a boundary slip: selling the whole position is refused
insufficientPosition_Le(L, market, volume) ==
    ~MapHas(L.positions, market) \/ RLe(L.positions[market].volume, volume)

\* line 166
insufficientPosition(L, market, volume) ==
    ~MapHas(L.positions, market) \/ RLt(L.positions[market].volume, volume)

\* lines 170-172
sellProfit(position, price, volume, fee) ==
    IF RGt(position.averageEntryPrice, I(0))
    THEN Some(RSub(RMul(RSub(price, position.averageEntryPrice), volume), fee))
    ELSE None

\* a slip: the emptied position is kept
positionClosed_Never(remaining) == RLt(remaining, I(0))

\* line 178
positionClosed(remaining) == RLe(remaining, I(VolumeEpsilon))

\* a slip: what is left after a sell is re-priced at the sale price
applySell_Reaverage(L, market, volume, amount, fee) ==
    LET position == L.positions[market]
        remaining == RSub(position.volume, volume)
    IN  [L EXCEPT !.currentBalance = RAdd(L.currentBalance, RSub(amount, fee)),
                  !.positions =
                      IF positionClosed(remaining)
                      THEN MapDelete(L.positions, market)
                      ELSE MapSet(L.positions, market,
                                  [position EXCEPT
                                      !.volume = remaining,
                                      !.averageEntryPrice = RDiv(amount, volume)])]

\* a slip: the fee of a sell is not taken from the proceeds
applySell_NoFee(L, market, volume, amount, fee) ==
    LET position == L.positions[market]
        remaining == RSub(position.volume, volume)
    IN  [L EXCEPT !.currentBalance = RAdd(L.currentBalance, amount),
                  !.positions =
                      IF positionClosed(remaining)
                      THEN MapDelete(L.positions, market)
                      ELSE MapSet(L.positions, market,
                                  [position EXCEPT !.volume = remaining])]

\* lines 174-184
applySell(L, market, volume, amount, fee) ==
    LET position == L.positions[market]
        remaining == RSub(position.volume, volume)
    IN  [L EXCEPT !.currentBalance = RAdd(L.currentBalance, RSub(amount, fee)),
                  !.positions =
                      IF positionClosed(remaining)
                      THEN MapDelete(L.positions, market)
                      ELSE MapSet(L.positions, market,
                                  [position EXCEPT !.volume = remaining])]

\* a slip: the new trade replaces the log's last record
appendTrade_Overwrite(L, newTrade) ==
    [L EXCEPT !.trades =
        IF L.trades = << >> THEN <<newTrade>>
        ELSE [L.trades EXCEPT ![Len(L.trades)] = newTrade]]

\* lines 187-199
appendTrade(L, newTrade) == [L EXCEPT !.trades = Append(L.trades, newTrade)]

\* recordTrade(order, currentCandle); uuid4 is the value uuidv4() would return.
\* The result is the ledger after the call and the returned trade (absent: null).
recordTrade(L, order, currentCandle, uuid4) ==
    LET market == order.market
        side == order.side
        volume == parseFloat(order.volume)
        orderType == order.ord_type
        resolved == resolvePrice(order, currentCandle)
        price == Get(resolved)
        amount == RMul(price, volume)
        fee == RMul(amount, L.feeRate)
        tradeUuid == IF IsSome(order.uuid) THEN Get(order.uuid) ELSE uuid4
        rejected == [ledger |-> L, ret |-> None]
        trade(profit) ==
            [uuid |-> tradeUuid, market |-> market, side |-> side,
             orderType |-> orderType, price |-> price, volume |-> volume,
             amount |-> amount, fee |-> fee,
             timestamp |-> currentCandle.timestamp, profit |-> profit]
        accepted(L2, profit) ==
            [ledger |-> appendTrade(L2, trade(profit)), ret |-> Some(trade(profit))]
    IN  IF ~IsSome(resolved) THEN rejected
        ELSE IF invalidVolumeOrPrice(volume, price) THEN rejected
        ELSE IF side = BID
        THEN IF insufficientBalance(L.currentBalance, amount, fee) THEN rejected
             ELSE accepted(applyBuy(L, market, volume, amount, fee), None)
        ELSE IF insufficientPosition(L, market, volume) THEN rejected
             ELSE accepted(applySell(L, market, volume, amount, fee),
                           sellProfit(L.positions[market], price, volume, fee))

\* BacktestStrategyOrchestrator.convertToCorePosition: what the decision engine
\* is handed for a ledger position (absent: null)
convertToCorePosition(position) ==
    IF ~IsSome(position) \/ RLe(Get(position).volume, I(0)) THEN None
    ELSE Some([market |-> Get(position).market,
               entryPrice |-> Get(position).averageEntryPrice,
               volume |-> Get(position).volume,
               pyramidingCount |-> None])

-----------------------------------------------------------------------------
(* The ledger driven by arbitrary calls (specification Spec) *)

\* cap on the length of the trade log
MaxTrades == 3

Markets == {"KRW-BTC", "KRW-ETH"}
LedgerInitialBalances == {I(10)}
LedgerFeeRates == {Num(1, 4)}
OrderVolumes == {I(1), I(3), I(4)}
LedgerUuids == {"u1"}

mkOrder(m, sd, type, price, v) ==
    [market |-> m, side |-> sd, ord_type |-> type, price |-> price,
     volume |-> toString(v), uuid |-> Some("u1")]

\* (ord_type, price) as Backtester.run builds them: a limit order at the signal's
\* price, or a market order filled at the candle's close
OrderKinds ==
    {[ord_type |-> LIMIT, price |-> Some(toString(I(2)))],
     [ord_type |-> MARKET, price |-> None]}

LedgerOrders ==
    \* every buy and sell of the first market
    {mkOrder("KRW-BTC", sd, k.ord_type, k.price, v) :
        sd \in {BID, ASK}, k \in OrderKinds, v \in OrderVolumes}
    \* the second market
    \cup {mkOrder("KRW-ETH", sd, MARKET, None, I(1)) : sd \in {BID, ASK}}
    \* invalid orders: zero volume, zero price, a limit order without a price
    \cup {mkOrder("KRW-BTC", BID, MARKET, None, I(0)),
          mkOrder("KRW-BTC", ASK, LIMIT, Some(toString(I(0))), I(1)),
          mkOrder("KRW-BTC", BID, LIMIT, None, I(1))}

LedgerCandles == {[trade_price |-> I(3), timestamp |-> 1]}
MarkPrices == {I(3)}

NoCall == [op |-> "none", order |-> None, candle |-> None, ret |-> None]

idle == [phase |-> "idle"]

(* The live server's objects before any of them is constructed. *)
notConstructed == [phase |-> "none"]

liveIdle ==
    /\ bot = notConstructed
    /\ signalLogs = notConstructed
    /\ mock = notConstructed

setLedger(L) ==
    /\ initialBalance' = L.initialBalance
    /\ currentBalance' = L.currentBalance
    /\ feeRate' = L.feeRate
    /\ positions' = L.positions
    /\ trades' = L.trades
    /\ marketPrices' = L.marketPrices

\* the ledger as constructed
setLedgerInit ==
    \E b \in LedgerInitialBalances, r \in LedgerFeeRates :
        LET L == newLedger(b, r)
        IN  /\ initialBalance = L.initialBalance
            /\ currentBalance = L.currentBalance
            /\ feeRate = L.feeRate
            /\ positions = L.positions
            /\ trades = L.trades
            /\ marketPrices = L.marketPrices

Init ==
    /\ setLedgerInit
    /\ lastCall = NoCall
    /\ liveIdle
    /\ sigIn = None
    /\ sigOut = None
    /\ run = idle

RecordTrade ==
    /\ Len(trades) < MaxTrades
    /\ \E order \in LedgerOrders, candle \in LedgerCandles, uuid4 \in LedgerUuids :
         LET r == recordTrade(Ledger, order, candle, uuid4)
         IN  /\ setLedger(r.ledger)
             /\ lastCall' = [op |-> "recordTrade", order |-> Some(order),
                             candle |-> Some(candle), ret |-> r.ret]
    /\ UNCHANGED <<sigIn, sigOut, run, liveVars>>

UpdateMarketPrice ==
    /\ \E m \in {"KRW-BTC"}, p \in MarkPrices :
         /\ setLedger(updateMarketPrice(Ledger, m, p))
         /\ lastCall' = [op |-> "updateMarketPrice", order |-> None,
                         candle |-> Some([market |-> m, trade_price |-> p]),
                         ret |-> None]
    /\ UNCHANGED <<sigIn, sigOut, run, liveVars>>

Reset ==
    /\ setLedger(reset(Ledger))
    /\ lastCall' = [NoCall EXCEPT !.op = "reset"]
    /\ UNCHANGED <<sigIn, sigOut, run, liveVars>>

Next == RecordTrade \/ UpdateMarketPrice \/ Reset

Spec == Init /\ [][Next]_vars

-----------------------------------------------------------------------------
(* Claims about the ledger, checked under Spec.                            *)
(* In a step, the unprimed ledger variables are the ledger before the      *)
(* call, the primed ones the ledger after it, and lastCall' holds the      *)
(* call's arguments and return value.                                      *)

heldVolume(P, m) == IF m \in DOMAIN P THEN P[m].volume ELSE I(0)
heldAverage(P, m) == IF m \in DOMAIN P THEN P[m].averageEntryPrice ELSE I(0)

\* the step is a recordTrade call of the given side with volume > 0 at a price > 0
IsTradeCall(call, sd) ==
    /\ call.op = "recordTrade"
    /\ Get(call.order).side = sd
    /\ RGt(Get(call.order).volume.numeral, I(0))
    /\ \/ /\ Get(call.order).ord_type = LIMIT
          /\ IsSome(Get(call.order).price)
          /\ RGt(Get(Get(call.order).price).numeral, I(0))
       \/ /\ Get(call.order).ord_type = MARKET
          /\ RGt(Get(call.candle).trade_price, I(0))

callMarket(call) == Get(call.order).market
callVolume(call) == Get(call.order).volume.numeral
callPrice(call) ==
    IF Get(call.order).ord_type = LIMIT
    THEN Get(Get(call.order).price).numeral
    ELSE Get(call.candle).trade_price
callAmount(call) == RMul(callPrice(call), callVolume(call))
callFee(call) == RMul(callAmount(call), feeRate)
callCost(call) == RAdd(callAmount(call), callFee(call))

LedgerUnchanged ==
    /\ currentBalance' = currentBalance
    /\ positions' = positions
    /\ trades' = trades

C3_Step ==
    IsTradeCall(lastCall', BID) =>
        /\ (lastCall'.ret = None) <=> RLt(currentBalance, callCost(lastCall'))
        /\ (lastCall'.ret = None) => LedgerUnchanged
        /\ (lastCall'.ret # None) =>
              /\ currentBalance' = RSub(currentBalance, callCost(lastCall'))
              /\ heldVolume(positions', callMarket(lastCall'))
                   = RAdd(heldVolume(positions, callMarket(lastCall')),
                          callVolume(lastCall'))

\* C3: a buy of volume v > 0 at price p > 0 is rejected, with cash, positions and
\* trade log unchanged, if and only if cash < p*v + fee with fee = p*v*feeRate;
\* otherwise cash decreases by exactly p*v + fee and the position's volume
\* increases by exactly v.
C3_BuyRejectedIffInsufficientCash == [][C3_Step]_vars

\* a buy rejected for insufficient cash has just returned
C3_Witness ==
    /\ IsTradeCall(lastCall, BID)
    /\ lastCall.ret = None
    /\ RLt(currentBalance, callCost(lastCall))
    /\ RGt(currentBalance, I(0))

sellRejectionCase(call) ==
    \/ callMarket(call) \notin DOMAIN positions
    \/ RLt(positions[callMarket(call)].volume, callVolume(call))

C4_Common ==
    /\ (lastCall'.ret = None) <=> sellRejectionCase(lastCall')
    /\ (lastCall'.ret = None) => LedgerUnchanged
    /\ (lastCall'.ret # None) =>
          /\ Get(lastCall'.ret).profit =
                Some(RSub(RMul(RSub(callPrice(lastCall'),
                                    heldAverage(positions, callMarket(lastCall'))),
                               callVolume(lastCall')),
                          callFee(lastCall')))
          /\ currentBalance' =
                RAdd(currentBalance, RSub(callAmount(lastCall'), callFee(lastCall')))

volumeDecreasedExactly ==
    heldVolume(positions', callMarket(lastCall'))
        = RSub(heldVolume(positions, callMarket(lastCall')), callVolume(lastCall'))

C4_OriginalStep ==
    IsTradeCall(lastCall', ASK) =>
        /\ C4_Common
        /\ (lastCall'.ret # None) => volumeDecreasedExactly

\* C4 as stated: ... and the held volume decreases by exactly v.
C4_Original == [][C4_OriginalStep]_vars

C4_AmendedStep ==
    IsTradeCall(lastCall', ASK) =>
        /\ C4_Common
        /\ (lastCall'.ret # None) =>
              IF RLe(RSub(heldVolume(positions, callMarket(lastCall')),
                          callVolume(lastCall')), I(VolumeEpsilon))
              THEN callMarket(lastCall') \notin DOMAIN positions'
              ELSE volumeDecreasedExactly

\* C4 (amended): a sell of volume v > 0 at price p > 0 is rejected with no state
\* change if and only if no position exists for the market or its held volume is
\* < v; otherwise the trade's realized profit is (p - averageEntryPrice)*v - fee,
\* cash increases by exactly p*v - fee, and the held volume decreases by exactly v
\* unless the remainder is at most the epsilon 1e-8, in which case the position is
\* removed (the held volume becomes 0).
C4_SellRejectedIffInsufficientVolume == [][C4_AmendedStep]_vars

\* a sell has just been accepted that left a remainder of exactly the epsilon
C4_Witness ==
    /\ IsTradeCall(lastCall, ASK)
    /\ lastCall.ret # None
    /\ Len(trades) >= 2
    /\ callMarket(lastCall) \notin DOMAIN positions
    /\ trades[Len(trades) - 1].side = BID
    /\ trades[Len(trades) - 1].market = callMarket(lastCall)
    /\ RSub(trades[Len(trades) - 1].volume, callVolume(lastCall)) = I(VolumeEpsilon)

C5_Step ==
    (IsTradeCall(lastCall', BID) /\ lastCall'.ret # None) =>
        LET m == callMarket(lastCall')
            oldAvg == heldAverage(positions, m)
            oldVolume == heldVolume(positions, m)
            newAvg == positions'[m].averageEntryPrice
        IN  /\ newAvg = RDiv(RAdd(RMul(oldAvg, oldVolume), callAmount(lastCall')),
                             RAdd(oldVolume, callVolume(lastCall')))
            /\ (m \notin DOMAIN positions) => newAvg = callPrice(lastCall')
            /\ (m \in DOMAIN positions /\ oldAvg = callPrice(lastCall'))
                  => newAvg = oldAvg

tradeTerm(t, term) ==
    CASE term = "amount+fee" -> RAdd(t.amount, t.fee)
      [] term = "amount-fee" -> RSub(t.amount, t.fee)
      [] term = "amount" -> t.amount
      [] term = "fee" -> t.fee

RECURSIVE sumOver(_, _, _)
\* the sum of a term over the logged trades of one side
sumOver(log, sd, term) ==
    IF log = << >> THEN I(0)
    ELSE RAdd(IF Head(log).side = sd THEN tradeTerm(Head(log), term) ELSE I(0),
              sumOver(Tail(log), sd, term))

\* C6: cash = initialBalance - sum over logged buys of (amount + fee)
\* + sum over logged sells of (amount - fee); the fees deducted from cash are the
\* sum of the fee fields of the logged trades.
C6_LedgerConservation ==
    /\ currentBalance =
         RAdd(RSub(initialBalance, sumOver(trades, BID, "amount+fee")),
              sumOver(trades, ASK, "amount-fee"))
    /\ RSub(RAdd(RSub(initialBalance, sumOver(trades, BID, "amount")),
                 sumOver(trades, ASK, "amount")),
            currentBalance)
         = RAdd(sumOver(trades, BID, "fee"), sumOver(trades, ASK, "fee"))
    /\ \A i \in 1..Len(trades) :
          /\ trades[i].amount = RMul(trades[i].price, trades[i].volume)
          /\ trades[i].fee = RMul(trades[i].amount, feeRate)

\* the log holds a buy and a sell, both with a fee, and a call was just rejected
C6_Witness ==
    /\ \E i, j \in 1..Len(trades) :
          /\ trades[i].side = BID /\ trades[j].side = ASK
          /\ RGt(trades[i].fee, I(0)) /\ RGt(trades[j].fee, I(0))
    /\ lastCall.op = "recordTrade"
    /\ lastCall.ret = None

C7_NoZeroVolumeRecord ==
    \A m \in DOMAIN positions :
        /\ positions[m].volume # I(0)
        /\ RGt(positions[m].volume, I(0))

C7_SellStep ==
    (/\ IsTradeCall(lastCall', ASK)
     /\ lastCall'.ret # None
     /\ RLe(RSub(heldVolume(positions, callMarket(lastCall')), callVolume(lastCall')),
            I(VolumeEpsilon)))
    => /\ callMarket(lastCall') \notin DOMAIN positions'
       /\ getPosition(Ledger', callMarket(lastCall')) = None
       /\ convertToCorePosition(getPosition(Ledger', callMarket(lastCall'))) = None

\* C7: no position record with volume 0 exists; a sell that brings a position's
\* volume to the epsilon (1e-8) or below removes the record, getPosition then
\* returns no position and the decision engine is handed "no position".
C7_ZeroVolumeMeansAbsent == [](C7_NoZeroVolumeRecord) /\ [][C7_SellStep]_vars

\* a sell of a position's whole volume has just been accepted
C7_Witness ==
    /\ IsTradeCall(lastCall, ASK)
    /\ lastCall.ret # None
    /\ Len(trades) >= 2
    /\ trades[Len(trades) - 1].side = BID
    /\ trades[Len(trades) - 1].market = callMarket(lastCall)
    /\ trades[Len(trades) - 1].volume = callVolume(lastCall)
    /\ getPosition(Ledger, callMarket(lastCall)) = None

IsPrefix(a, b) == Len(a) <= Len(b) /\ \A i \in 1..Len(a) : a[i] = b[i]

C8_Step ==
    /\ (lastCall'.op = "recordTrade" /\ lastCall'.ret # None)
          => /\ Len(trades') = Len(trades) + 1
             /\ IsPrefix(trades, trades')
             /\ trades'[Len(trades')] = Get(lastCall'.ret)
    /\ (lastCall'.op = "recordTrade" /\ lastCall'.ret = None) => trades' = trades
    /\ (lastCall'.op # "reset") => IsPrefix(trades, getTrades(Ledger'))

\* C8: every accepted recordTrade call appends exactly one Trade to the log and
\* every rejected call appends none; between resets the log after any call has
\* the log before the call as a prefix, all earlier records unchanged.
C8_TradeLogAppendOnly == [][C8_Step]_vars

\* a trade was just appended to a log that already held one, after a rejected call
C8_Witness ==
    /\ lastCall.op = "recordTrade"
    /\ lastCall.ret # None
    /\ Len(trades) >= 2
    /\ trades[Len(trades)] = Get(lastCall.ret)
    /\ trades[Len(trades)] # trades[Len(trades) - 1]


\* the call of the step is an accepted sell that leaves more than the epsilon
partialSellAccepted ==
    /\ IsTradeCall(lastCall', ASK)
    /\ lastCall'.ret # None
    /\ RGt(RSub(heldVolume(positions, callMarket(lastCall')), callVolume(lastCall')),
           I(VolumeEpsilon))

C37_Step ==
    /\ partialSellAccepted =>
           /\ callMarket(lastCall') \in DOMAIN positions'
           /\ heldAverage(positions', callMarket(lastCall'))
                = heldAverage(positions, callMarket(lastCall'))
    /\ \A m \in Markets :
           (/\ m \in DOMAIN positions
            /\ m \in DOMAIN positions'
            /\ positions'[m].averageEntryPrice # positions[m].averageEntryPrice)
           => /\ IsTradeCall(lastCall', BID)
              /\ lastCall'.ret # None
              /\ callMarket(lastCall') = m

\* C37: an accepted partial sell (one that leaves more than the epsilon of
\* volume) leaves the position's average entry price unchanged; only buys
\* change the average entry price of a held position.
C37_PartialSellKeepsAverage == [][C37_Step]_vars

\* reachable: part of a position was just sold at a price other than its
\* average entry price
C37_Witness ==
    /\ IsTradeCall(lastCall, ASK)
    /\ lastCall.ret # None
    /\ callMarket(lastCall) \in DOMAIN positions
    /\ positions[callMarket(lastCall)].averageEntryPrice # callPrice(lastCall)

-----------------------------------------------------------------------------
(* IndicatorCalculator                                                     *)
(*                                                                         *)
(* A price array is a sequence of numbers; index 1 is the array's index 0. *)
(* Periods are positive integers.                                          *)

Min2(a, b) == IF a < b THEN a ELSE b
Max2(a, b) == IF a > b THEN a ELSE b

\* Array.prototype.slice(from, to) with 0 <= from
slice(arr, from, to) == SubSeq(arr, from + 1, Min2(to, Len(arr)))

\* [...arr].reverse()
reverse(arr) == [i \in 1..Len(arr) |-> arr[Len(arr) + 1 - i]]

\* arr.reduce((sum, x) => sum + x, 0)
RECURSIVE sum(_)
sum(arr) == IF arr = << >> THEN I(0) ELSE RAdd(sum(SubSeq(arr, 1, Len(arr) - 1)), arr[Len(arr)])

RECURSIVE ISqrtIn(_, _, _)
\* the largest r in lo..hi with r * r <= k
ISqrtIn(k, lo, hi) ==
    IF lo >= hi THEN lo
    ELSE LET mid == (lo + hi + 1) \div 2
         IN  IF mid * mid <= k THEN ISqrtIn(k, mid, hi) ELSE ISqrtIn(k, lo, mid - 1)

ISqrt(k) == ISqrtIn(k, 0, Min2(k, 46340))

\* digits kept of a square root that is not rational
SqrtScale == 100

\* Math.sqrt: exact when the root is rational, else rounded down to 1/SqrtScale
sqrt(a) ==
    IF IsNaN(a) \/ RLt(a, I(0)) THEN NaN
    ELSE IF a.d = 0 THEN a
    ELSE LET rn == ISqrt(a.n)
             rd == ISqrt(a.d)
         IN  IF rn * rn = a.n /\ rd * rd = a.d THEN Num(rn, rd)
             ELSE Num(ISqrt((a.n * SqrtScale * SqrtScale) \div a.d), SqrtScale)

\* lines 42-44
variance(currentPrices, sma) ==
    RDiv(sum([i \in 1..Len(currentPrices) |->
                 RMul(RSub(currentPrices[i], sma), RSub(currentPrices[i], sma))]),
         I(Len(currentPrices)))

\* lines 47-56
bands(sma, upper, lower) ==
    [upper |-> upper, middle |-> sma, lower |-> lower,
     bandwidth |-> IF sma = I(0) THEN I(0) ELSE RDiv(RSub(upper, lower), sma)]

\* lines 45-48
bandsAround(sma, stdDev, stdDevMultiplier) ==
    bands(sma, RAdd(sma, RMul(stdDev, stdDevMultiplier)),
               RSub(sma, RMul(stdDev, stdDevMultiplier)))

\* lines 39-45
bandsOf(currentPrices, sma, stdDevMultiplier) ==
    bandsAround(sma, sqrt(variance(currentPrices, sma)), stdDevMultiplier)

\* lines 29-57
calculateBollingerBands(prices, period, stdDevMultiplier) ==
    IF Len(prices) < period
    THEN [upper |-> I(0), middle |-> I(0), lower |-> I(0), bandwidth |-> I(0)]
    ELSE bandsOf(slice(prices, 0, period),
                 RDiv(sum(slice(prices, 0, period)), I(Len(slice(prices, 0, period)))),
                 stdDevMultiplier)

RECURSIVE emaLoop(_, _, _, _)
\* lines 74-76: the loop from index i (0-based) on
emaLoop(prices, i, ema, multiplier) ==
    IF i >= Len(prices) THEN ema
    ELSE emaLoop(prices, i + 1,
                 RAdd(RMul(RSub(prices[i + 1], ema), multiplier), ema), multiplier)

\* lines 65-78
calculateEMA(prices, period) ==
    IF Len(prices) < period
    THEN (IF Len(prices) > 0 THEN prices[Len(prices)] ELSE I(0))
    ELSE emaLoop(prices, period,
                 RDiv(sum(slice(prices, 0, period)), I(period)),
                 Num(2, period + 1))

\* lines 97-113: the average gain and the average loss of the first period changes
averageChange(changes, period, gain) ==
    RDiv(sum([i \in 1..period |->
                 IF gain
                 THEN (IF RGt(changes[i], I(0)) THEN changes[i] ELSE I(0))
                 ELSE (IF RGt(changes[i], I(0)) THEN I(0)
                       ELSE IF RLt(changes[i], I(0)) THEN RNeg(changes[i])
                       ELSE changes[i])]),
         I(period))

\* an RSI that answers a period without loss with the neutral value
rsiOf_Neutral(avgGain, avgLoss) ==
    IF avgLoss = I(0) THEN I(50)
    ELSE RSub(I(100), RDiv(I(100), RAdd(I(1), RDiv(avgGain, avgLoss))))

\* lines 115-122
rsiOf(avgGain, avgLoss) ==
    IF avgLoss = I(0) THEN I(100)
    ELSE RSub(I(100), RDiv(I(100), RAdd(I(1), RDiv(avgGain, avgLoss))))

\* lines 92-113
rsiOfChanges(changes, period) ==
    rsiOf(averageChange(changes, period, TRUE), averageChange(changes, period, FALSE))

\* lines 86-123
calculateRSI(prices, period) ==
    IF Len(prices) < period + 1 THEN I(50)
    ELSE rsiOfChanges([i \in 1..(Len(prices) - 1) |-> RSub(prices[i], prices[i + 1])],
                      period)

\* lines 162-173: the MACD line at every point with at least longPeriod prices
macdLines(reversedPrices, shortPeriod, longPeriod) ==
    [j \in 1..(Len(reversedPrices) - longPeriod + 1) |->
        RSub(calculateEMA(slice(reversedPrices, 0, longPeriod + j - 1), shortPeriod),
             calculateEMA(slice(reversedPrices, 0, longPeriod + j - 1), longPeriod))]

\* lines 187-196
macdResultOf(lastMacdLine, signalLine) ==
    Some([macdLine |-> lastMacdLine, signalLine |-> signalLine,
          histogram |-> RSub(lastMacdLine, signalLine)])

\* lines 175-196
macdOfLines(lines, signalPeriod) ==
    IF Len(lines) < signalPeriod THEN None
    ELSE macdResultOf(lines[Len(lines)], calculateEMA(lines, signalPeriod))

\* a calculateMACD that answers short data with a default result
calculateMACD_Default(prices, shortPeriod, longPeriod, signalPeriod) ==
    IF Len(prices) < longPeriod + signalPeriod - 1
    THEN macdResultOf(I(1), I(0))
    ELSE macdOfLines(macdLines(reverse(prices), shortPeriod, longPeriod), signalPeriod)

\* lines 129-197; null is << >>
calculateMACD(prices, shortPeriod, longPeriod, signalPeriod) ==
    IF Len(prices) < longPeriod + signalPeriod - 1 THEN None
    ELSE macdOfLines(macdLines(reverse(prices), shortPeriod, longPeriod), signalPeriod)

-----------------------------------------------------------------------------
(* StrategyConfig                                                          *)
(*                                                                         *)
(* Every key is optional.  Periods and counts are integers, the other      *)
(* numeric keys are numbers.  Only the keys the decision engine reads are  *)
(* kept.                                                                   *)

NoWeights ==
    [emaGoldenCross |-> None, bollingerBreakout |-> None, volumeSpike |-> None,
     rsiOversold |-> None, buyMacdGoldenCross |-> None, buySynergy |-> None,
     pyramidingSignalBoost |-> None,
     rsiOverboughtSell |-> None, emaDeadCrossSell |-> None, sellMacdDeadCross |-> None,
     profitTargetWeight |-> None, sellSynergyRsiEma |-> None]

NoRsiCondition == [below |-> None, above |-> None]

\* the empty object {}
EmptyConfig ==
    [bollingerPeriod |-> None, bollingerStdDev |-> None,
     emaShortPeriod |-> None, emaMidPeriod |-> None, emaLongPeriod |-> None,
     rsiPeriod |-> None, rsiOverboughtThreshold |-> None, rsiOversoldThreshold |-> None,
     volumeSpikeMultiplier |-> None,
     buyScoreThresholdShortTerm |-> None,
     stopLossPercentShortTerm |-> None, profitTargetPercentShortTerm |-> None,
     macdShortPeriod |-> None, macdLongPeriod |-> None, macdSignalPeriod |-> None,
     allowPyramiding |-> None, maxPyramidingCount |-> None,
     pyramidingConditionDropPercent |-> None,
     pyramidingRsiCondition |-> None,
     weights |-> None]

\* config.trading.defaultStrategyConfig (config.ts)
defaultStrategyConfig ==
    [EmptyConfig EXCEPT
        !.bollingerPeriod = Some(20),
        !.bollingerStdDev = Some(I(2)),
        !.emaShortPeriod = Some(5),
        !.emaMidPeriod = Some(10),
        !.emaLongPeriod = Some(20),
        !.rsiPeriod = Some(14),
        !.rsiOverboughtThreshold = Some(I(70)),
        !.rsiOversoldThreshold = Some(I(30)),
        !.volumeSpikeMultiplier = Some(I(2)),
        !.stopLossPercentShortTerm = Some(Num(3, 2)),
        !.profitTargetPercentShortTerm = Some(I(3)),
        !.buyScoreThresholdShortTerm = Some(I(80)),
        !.weights = Some([NoWeights EXCEPT
                            !.emaGoldenCross = Some(I(30)),
                            !.bollingerBreakout = Some(I(30)),
                            !.volumeSpike = Some(I(25)),
                            !.rsiOversold = Some(I(20)),
                            !.buySynergy = Some(I(15)),
                            !.rsiOverboughtSell = Some(I(60)),
                            !.emaDeadCrossSell = Some(I(50)),
                            !.sellSynergyRsiEma = Some(I(85))])]

\* { ...a, ...b } for two objects with the same optional keys
spread(a, b) == [k \in DOMAIN a |-> IF IsSome(b[k]) THEN b[k] ELSE a[k]]

\* generateSignal lines 30-42: the defaults overlaid with the caller's config,
\* weights and pyramidingRsiCondition merged key by key
mergeStrategyConfig(strategyCfgInput) ==
    [spread(defaultStrategyConfig, strategyCfgInput) EXCEPT
        !.weights =
            Some(spread(OrDefault(defaultStrategyConfig.weights, NoWeights),
                        OrDefault(strategyCfgInput.weights, NoWeights))),
        !.pyramidingRsiCondition =
            Some(spread(OrDefault(defaultStrategyConfig.pyramidingRsiCondition, NoRsiCondition),
                        OrDefault(strategyCfgInput.pyramidingRsiCondition, NoRsiCondition)))]

-----------------------------------------------------------------------------
(* SignalGenerator.handlePyramidingSignal                                  *)
(*                                                                         *)
(* A StrategyResult keeps the branch that produced it in "reason" in place *)
(* of the formatted text.                                                  *)

\* lines 253-259
priceDropBeyondTarget(priceRatio, base) ==
    IF RGt(RMul(RSub(I(1), priceRatio), I(100)), I(15))
    THEN RMax(I(10), RSub(base, I(10)))
    ELSE base

\* lines 236-266
priceDropScore(priceRatio, expectedRatio) ==
    IF RLe(priceRatio, expectedRatio)
    THEN priceDropBeyondTarget(priceRatio,
             RAdd(I(20), RMin(RMul(RMul(RSub(expectedRatio, priceRatio), I(100)), I(2)),
                              I(10))))
    ELSE RMax(I(0),
              RMin(I(20),
                   RMul(RSub(I(1), RDiv(RSub(priceRatio, expectedRatio),
                                        RSub(I(1), expectedRatio))),
                        I(20))))

\* lines 285-297
rsiTier(rsi, rsiBelow) ==
    IF RLe(rsi, RMul(rsiBelow, Num(7, 10))) THEN I(30)
    ELSE IF RLe(rsi, RMul(rsiBelow, Num(8, 10))) THEN I(25)
    ELSE IF RLe(rsi, RMul(rsiBelow, Num(9, 10))) THEN I(20)
    ELSE I(15)

\* lines 273-304, with rsiAbove absent, 0 or NaN when aboveSet is false
rsiScoreFor(rsi, rsiBelow, aboveSet, rsiAbove) ==
    IF (Truthy(rsiBelow) /\ RGe(rsi, rsiBelow)) \/ (aboveSet /\ RLe(rsi, rsiAbove))
    THEN I(0)
    ELSE IF aboveSet /\ ~Truthy(rsiBelow) THEN I(15)
    ELSE IF Truthy(rsiBelow) THEN rsiTier(rsi, rsiBelow)
    ELSE I(0)

\* lines 269-304
pyramidingRsiScore(rsi, pyramidingRsiCondition) ==
    rsiScoreFor(rsi, OrElse(pyramidingRsiCondition.below, I(40)),
                IsSome(pyramidingRsiCondition.above)
                    /\ Truthy(Get(pyramidingRsiCondition.above)),
                OrDefault(pyramidingRsiCondition.above, NaN))

\* lines 311-320
histogramScore(histogram) ==
    IF RGt(histogram, I(0)) THEN I(15)
    ELSE IF RGt(histogram, Num(-1, 2)) THEN I(10)
    ELSE IF RGt(histogram, RMul(histogram, Num(9, 10))) THEN I(5)
    ELSE I(0)

\* lines 323-329
macdPenalty(macdLine, signalLine, score) ==
    IF /\ RLt(macdLine, I(0))
       /\ RLt(macdLine, RMul(macdLine, Num(105, 100)))
       /\ RLt(signalLine, RMul(signalLine, Num(105, 100)))
    THEN RMax(I(0), RSub(score, I(5)))
    ELSE score

\* lines 307-330
pyramidingMacdScore(macdResult) ==
    IF ~IsSome(macdResult) THEN I(0)
    ELSE macdPenalty(Get(macdResult).macdLine, Get(macdResult).signalLine,
                     histogramScore(Get(macdResult).histogram))

\* lines 239-249: the price ratio the position must have dropped to
expectedRatio(currentPyramidingCount, pyramidingConditionDropPercent) ==
    RSub(I(1),
         RDiv(IF currentPyramidingCount = 0 THEN pyramidingConditionDropPercent
              ELSE RMul(pyramidingConditionDropPercent, Num(3, 2)),
              I(100)))

\* lines 333-345
marketContextScore(currentPyramidingCount, strategyCfg) ==
    RAdd(IF currentPyramidingCount = 0 THEN I(10) ELSE I(5),
         OrElse(OrDefault(strategyCfg.weights, NoWeights).pyramidingSignalBoost, I(0)))

\* lines 348-381
pyramidingResult(market, currentPrice, finalPyramidingScore, thresholdScore) ==
    IF RGe(finalPyramidingScore, thresholdScore)
    THEN Some([action |-> "buy", market |-> market, reason |-> "pyramiding",
               price |-> Some(currentPrice), volume |-> None,
               score |-> finalPyramidingScore])
    ELSE None

\* lines 230-381, for a position's pyramiding count
pyramidingSignalAt(market, currentPrice, rsi, macdResult, entryPrice, strategyCfg, buyScoreThresholdShortTerm, currentPyramidingCount) ==
    IF currentPyramidingCount >= OrDefault(strategyCfg.maxPyramidingCount, 2) THEN None
    ELSE pyramidingResult(market, currentPrice,
             RMin(I(100),
                  RAdd(RAdd(priceDropScore(
                                RDiv(currentPrice, entryPrice),
                                expectedRatio(currentPyramidingCount,
                                    OrDefault(strategyCfg.pyramidingConditionDropPercent,
                                              I(5)))),
                            pyramidingRsiScore(rsi,
                                OrDefault(strategyCfg.pyramidingRsiCondition,
                                          [NoRsiCondition EXCEPT !.below = Some(I(40))]))),
                       RAdd(pyramidingMacdScore(macdResult),
                            marketContextScore(currentPyramidingCount, strategyCfg)))),
             RMul(buyScoreThresholdShortTerm, Num(6, 10)))

\* lines 214-382; null is << >>
handlePyramidingSignal(market, currentPrice, rsi, macdResult, currentPosition, strategyCfg, buyScoreThresholdShortTerm, baseScore) ==
    pyramidingSignalAt(market, currentPrice, rsi, macdResult, currentPosition.entryPrice,
                       strategyCfg, buyScoreThresholdShortTerm,
                       IF IsSome(currentPosition.pyramidingCount)
                       THEN Get(currentPosition.pyramidingCount) ELSE 0)

-----------------------------------------------------------------------------
(* ScoreCalculator.calculateBuyScore (the "reasons" texts are left out)    *)

\* lines 454-459
emaAligned(shortMidGap, midLongGap) ==
    RAdd(I(70), RMul(RMin(RMax(RAdd(shortMidGap, midLongGap), I(0)), I(3)), I(10)))

\* lines 451-482
emaScore(emaShort, emaMid, emaLong) ==
    IF RGt(emaShort, emaMid) /\ RGt(emaMid, emaLong)
    THEN emaAligned(RMul(RSub(RDiv(emaShort, emaMid), I(1)), I(100)),
                    RMul(RSub(RDiv(emaMid, emaLong), I(1)), I(100)))
    ELSE IF RGt(emaShort, emaMid) \/ RGt(emaShort, emaLong)
    THEN RAdd(RAdd(I(30), IF RGt(emaShort, emaMid) THEN I(20) ELSE I(0)),
              IF RGt(emaShort, emaLong) THEN I(10) ELSE I(0))
    ELSE I(0)

\* lines 511-520
belowLowerScore(belowPercent) ==
    IF RGt(belowPercent, I(3))
    THEN RAdd(I(60), RMin(RMul(belowPercent, I(3)), I(20)))
    ELSE RAdd(I(40), RMul(belowPercent, I(6)))

\* lines 523-529
lowerHalfScore(positionRatio) ==
    IF RGt(positionRatio, Num(8, 10))
    THEN RAdd(I(40), RMul(positionRatio, I(10)))
    ELSE RAdd(I(20), RMul(positionRatio, I(20)))

\* lines 491-530
bbScoreOf(currentPrice, bbUpper, bbMiddle, bbLower) ==
    IF RGt(currentPrice, bbUpper)
    THEN RAdd(I(80),
              RMin(RMul(RMul(RDiv(RSub(currentPrice, bbUpper), bbUpper), I(100)), I(4)),
                   I(20)))
    ELSE IF RGt(currentPrice, bbMiddle)
    THEN RAdd(I(50),
              RMul(RDiv(RSub(currentPrice, bbMiddle), RSub(bbUpper, bbMiddle)), I(30)))
    ELSE IF RLt(currentPrice, bbLower)
    THEN belowLowerScore(RMul(RDiv(RSub(bbLower, currentPrice), bbLower), I(100)))
    ELSE IF RLt(currentPrice, bbMiddle)
    THEN lowerHalfScore(RDiv(RSub(bbMiddle, currentPrice), RSub(bbMiddle, bbLower)))
    ELSE I(0)

\* lines 485-531
bbScore(currentPrice, bollingerBands) ==
    bbScoreOf(currentPrice, bollingerBands.upper, bollingerBands.middle,
              bollingerBands.lower)

\* lines 538-558
volumeScoreOf(volumeRatio, volumeSpikeMultiplier) ==
    IF RGe(volumeRatio, volumeSpikeMultiplier)
    THEN RAdd(I(80),
              RMin(RMul(RDiv(RSub(volumeRatio, volumeSpikeMultiplier),
                             volumeSpikeMultiplier), I(20)),
                   I(20)))
    ELSE IF RGe(volumeRatio, Num(13, 10))
    THEN RAdd(I(50),
              RMul(RDiv(RSub(volumeRatio, Num(13, 10)),
                        RSub(volumeSpikeMultiplier, Num(13, 10))), I(30)))
    ELSE IF RGt(volumeRatio, I(1))
    THEN RAdd(I(30), RMul(RDiv(RSub(volumeRatio, I(1)), Num(3, 10)), I(20)))
    ELSE RMax(RMul(I(30), volumeRatio), I(0))

\* lines 534-559
volumeScore(currentVolume, avgVolume, strategyCfg) ==
    volumeScoreOf(RDiv(currentVolume, avgVolume),
                  OrElse(strategyCfg.volumeSpikeMultiplier, I(2)))

\* lines 566-585
rsiScoreOf(rsi, rsiOversoldThreshold, rsiOverboughtThreshold) ==
    IF RLe(rsi, rsiOversoldThreshold)
    THEN RAdd(I(80), RMin(RMul(RSub(rsiOversoldThreshold, rsi), I(2)), I(20)))
    ELSE IF RLe(rsi, I(40))
    THEN RAdd(I(60),
              RMul(RDiv(RSub(I(40), rsi), RSub(I(40), rsiOversoldThreshold)), I(20)))
    ELSE IF RLe(rsi, I(55))
    THEN RAdd(I(40), RMul(RDiv(RSub(I(55), rsi), I(15)), I(20)))
    ELSE IF RLt(rsi, rsiOverboughtThreshold)
    THEN RMax(RSub(I(40),
                   RMul(RDiv(RSub(rsi, I(55)), RSub(rsiOverboughtThreshold, I(55))),
                        I(40))),
              I(0))
    ELSE I(0)

\* lines 562-587
rsiScore(rsi, strategyCfg) ==
    rsiScoreOf(rsi, OrElse(strategyCfg.rsiOversoldThreshold, I(30)),
               OrElse(strategyCfg.rsiOverboughtThreshold, I(70)))

RAbs(a) == IF RLt(a, I(0)) THEN RNeg(a) ELSE a

\* lines 594-616
macdScoreOf(macdLine, signalLine, histogram) ==
    IF RGt(macdLine, signalLine)
    THEN RAdd(I(60),
              RMin(RMul(RDiv(RSub(macdLine, signalLine),
                             RAbs(IF Truthy(signalLine) THEN signalLine
                                  ELSE Num(1, 1000))),
                        I(100)),
                   I(40)))
    ELSE IF RGt(macdLine, I(0)) /\ RGt(histogram, I(0))
    THEN RAdd(I(50), RMin(RMul(histogram, I(20)), I(10)))
    ELSE IF RGt(histogram, I(0))
    THEN RAdd(I(50), RMin(RMul(histogram, I(10)), I(10)))
    ELSE IF RLt(histogram, I(0)) /\ RGt(histogram, RMul(histogram, Num(105, 100)))
    THEN RAdd(I(30), RMin(RMul(RAbs(histogram), I(10)), I(20)))
    ELSE I(0)

\* lines 590-618
macdScore(macdResult) ==
    IF ~IsSome(macdResult) THEN I(0)
    ELSE macdScoreOf(Get(macdResult).macdLine, Get(macdResult).signalLine,
                     Get(macdResult).histogram)

\* [..scores].filter((score) => score > limit).length
countAbove(scores, limit) == Cardinality({i \in DOMAIN scores : RGt(scores[i], limit)})

\* lines 621-661
synergyScore(ema, bb, vol, rsiS, macd, currentPrice, bbLower) ==
    IF RGt(ema, I(70)) /\ RGt(bb, I(70)) /\ RGt(vol, I(70)) THEN I(100)
    ELSE IF RGt(ema, I(70)) /\ RGt(rsiS, I(70)) THEN I(90)
    ELSE IF RLt(currentPrice, bbLower) /\ RGt(rsiS, I(80)) THEN I(85)
    ELSE IF RGt(macd, I(60)) /\ RGt(vol, I(50)) THEN I(80)
    ELSE IF countAbove(<<ema, bb, vol, rsiS, macd>>, I(60)) >= 2 THEN I(70)
    ELSE IF countAbove(<<ema, bb, vol, rsiS, macd>>, I(40)) >= 3 THEN I(50)
    ELSE I(0)

\* one term of lines 665-688: score * (weight || default) / 100
weighted(score, weight, default) == RDiv(RMul(score, OrElse(weight, default)), I(100))

\* lines 664-697
scoreOutput(weights, ema, bb, vol, rsiS, macd, synergy) ==
    [score |->
        RRound(RMax(I(0), RMin(I(100),
            RAdd(RAdd(RAdd(weighted(ema, weights.emaGoldenCross, I(20)),
                           weighted(bb, weights.bollingerBreakout, I(15))),
                      RAdd(weighted(vol, weights.volumeSpike, I(15)),
                           weighted(rsiS, weights.rsiOversold, I(20)))),
                 RAdd(weighted(macd, weights.buyMacdGoldenCross, I(20)),
                      weighted(synergy, weights.buySynergy, I(10))))))),
     indicatorScores |->
         [emaGoldenCross |-> ema, bollingerBreakout |-> bb, volumeSpike |-> vol,
          rsiCondition |-> rsiS, macdCondition |-> macd, synergyEffect |-> synergy]]

\* lines 620-697
scoreWithSynergy(weights, ema, bb, vol, rsiS, macd, currentPrice, bbLower) ==
    scoreOutput(weights, ema, bb, vol, rsiS, macd,
                synergyScore(ema, bb, vol, rsiS, macd, currentPrice, bbLower))

\* lines 417-698
calculateBuyScore(currentPrice, bollingerBands, emaShort, emaMid, emaLong, rsi, currentVolume, avgVolume, strategyCfg, macdResult) ==
    scoreWithSynergy(OrDefault(strategyCfg.weights, NoWeights),
                     emaScore(emaShort, emaMid, emaLong),
                     bbScore(currentPrice, bollingerBands),
                     volumeScore(currentVolume, avgVolume, strategyCfg),
                     rsiScore(rsi, strategyCfg),
                     macdScore(macdResult),
                     currentPrice, bollingerBands.lower)

-----------------------------------------------------------------------------
(* ScoreCalculator.calculateSellPressureScore (signal-generator.ts).       *)
(* generateSignal never calls it.                                          *)

\* lines 738-754
sellRsiScoreOf(rsi, rsiOverboughtThreshold) ==
    IF RGe(rsi, rsiOverboughtThreshold)
    THEN RAdd(I(70), RMin(RMul(RSub(rsi, rsiOverboughtThreshold), I(3)), I(30)))
    ELSE IF RGe(rsi, RSub(rsiOverboughtThreshold, I(10)))
    THEN RAdd(I(40),
              RMul(RDiv(RSub(rsi, RSub(rsiOverboughtThreshold, I(10))), I(10)), I(30)))
    ELSE IF RGe(rsi, I(50)) THEN RMul(RSub(rsi, I(50)), I(2))
    ELSE I(0)

\* lines 757-777
sellEmaScoreOf(emaShort, emaMid) ==
    IF RLt(emaShort, emaMid)
    THEN RAdd(I(70),
              RMin(RMul(RMul(RSub(RDiv(emaMid, emaShort), I(1)), I(100)), I(10)), I(30)))
    ELSE IF RLt(emaShort, RMul(emaShort, Num(1005, 1000))) THEN I(50)
    ELSE IF RLt(emaShort, RMul(emaShort, Num(101, 100))) THEN I(30)
    ELSE I(0)

\* lines 780-799
sellBbScoreOf(currentPrice, bbMiddle, bbUpper) ==
    IF RGt(currentPrice, RMul(bbUpper, Num(105, 100)))
    THEN RAdd(I(80), RMin(RMul(RSub(RDiv(currentPrice, bbUpper), I(1)), I(100)), I(20)))
    ELSE IF RGt(currentPrice, bbUpper)
    THEN RAdd(I(60), RMul(RDiv(RSub(currentPrice, bbUpper), bbUpper), I(100)))
    ELSE IF RGt(currentPrice, bbMiddle) /\ RGt(currentPrice, RMul(bbMiddle, Num(102, 100)))
    THEN RAdd(I(40),
              RMul(RDiv(RSub(currentPrice, bbMiddle), RSub(bbUpper, bbMiddle)), I(20)))
    ELSE I(0)

\* lines 806-826
sellMacdScoreOf(macdLine, signalLine, histogram) ==
    IF RLt(macdLine, signalLine)
    THEN RAdd(I(70),
              RMin(RMul(RDiv(RSub(signalLine, macdLine),
                             RAbs(IF Truthy(signalLine) THEN signalLine
                                  ELSE Num(1, 1000))),
                        I(100)),
                   I(30)))
    ELSE IF RLt(histogram, I(0)) /\ RLt(histogram, RMul(histogram, Num(95, 100)))
    THEN I(50)
    ELSE IF RGt(macdLine, I(0)) /\ RLt(macdLine, RMul(macdLine, Num(95, 100)))
    THEN I(40)
    ELSE I(0)

\* lines 802-828
sellMacdScore(macdResult) ==
    IF ~IsSome(macdResult) THEN I(0)
    ELSE sellMacdScoreOf(Get(macdResult).macdLine, Get(macdResult).signalLine,
                         Get(macdResult).histogram)

\* lines 836-849
profitScoreOf(currentProfitRate, profitTargetPercent) ==
    IF RGe(currentProfitRate, RMul(profitTargetPercent, Num(3, 2))) THEN I(90)
    ELSE IF RGe(currentProfitRate, profitTargetPercent) THEN I(70)
    ELSE IF RGe(currentProfitRate, RMul(profitTargetPercent, Num(7, 10))) THEN I(50)
    ELSE I(0)

\* lines 831-851
profitScore(currentProfitRate, strategyCfg) ==
    IF ~IsSome(currentProfitRate) THEN I(0)
    ELSE profitScoreOf(Get(currentProfitRate),
                       OrElse(strategyCfg.profitTargetPercentShortTerm, I(3)))

\* lines 854-885
sellSynergyScore(rsiS, ema, bb, macd, profit) ==
    IF RGt(rsiS, I(70)) /\ RGt(ema, I(70)) THEN I(100)
    ELSE IF RGt(rsiS, I(70)) /\ RGt(bb, I(80)) THEN I(90)
    ELSE IF RGt(macd, I(70)) /\ RGt(ema, I(70)) THEN I(85)
    ELSE IF /\ RGt(profit, I(70))
            /\ (RGt(rsiS, I(60)) \/ RGt(ema, I(60)) \/ RGt(macd, I(60)))
    THEN I(80)
    ELSE IF countAbove(<<rsiS, ema, bb, macd>>, I(60)) >= 2 THEN I(70)
    ELSE I(0)

\* lines 888-917
sellScoreOutput(weights, rsiS, ema, bb, macd, profit, synergy) ==
    [score |->
        RRound(RMax(I(0), RMin(I(100),
            RAdd(RAdd(RAdd(weighted(rsiS, weights.rsiOverboughtSell, I(25)),
                           weighted(ema, weights.emaDeadCrossSell, I(20))),
                      RAdd(weighted(bb, weights.bollingerBreakout, I(15)),
                           weighted(macd, weights.sellMacdDeadCross, I(20)))),
                 RAdd(weighted(profit, weights.profitTargetWeight, I(10)),
                      weighted(synergy, weights.sellSynergyRsiEma, I(10))))))),
     indicatorScores |->
         [rsiOverbought |-> rsiS, emaDeadCross |-> ema, bollingerBand |-> bb,
          macdCondition |-> macd, profitTarget |-> profit, synergyEffect |-> synergy]]

\* lines 853-917
sellScoreWithSynergy(weights, rsiS, ema, bb, macd, profit) ==
    sellScoreOutput(weights, rsiS, ema, bb, macd, profit,
                    sellSynergyScore(rsiS, ema, bb, macd, profit))

\* lines 704-918
calculateSellPressureScore(currentPrice, bollingerBands, emaShort, emaMid, rsi, strategyCfg, currentProfitRate, macdResult) ==
    sellScoreWithSynergy(OrDefault(strategyCfg.weights, NoWeights),
                         sellRsiScoreOf(rsi, OrElse(strategyCfg.rsiOverboughtThreshold, I(70))),
                         sellEmaScoreOf(emaShort, emaMid),
                         sellBbScoreOf(currentPrice, bollingerBands.middle,
                                       bollingerBands.upper),
                         sellMacdScore(macdResult),
                         profitScore(currentProfitRate, strategyCfg))

\* config.ts line 87: the sell threshold of the default strategy configuration
sellScoreThresholdShortTerm == I(65)

-----------------------------------------------------------------------------
(* SignalGenerator.generateSignal                                          *)

Max3(a, b, c) == Max2(a, Max2(b, c))

\* a guard that forgets the extra price the RSI needs
insufficientData_NoRsiExtra(length, bollingerPeriod, emaLongPeriod, rsiPeriod) ==
    length < Max3(bollingerPeriod, emaLongPeriod, rsiPeriod)

\* lines 63-66
insufficientData(length, bollingerPeriod, emaLongPeriod, rsiPeriod) ==
    length < Max3(bollingerPeriod, emaLongPeriod, rsiPeriod + 1)

\* no branch of generateSignal or handlePyramidingSignal sets the optional volume
StrategyResult(action, market, reason, price, score) ==
    [action |-> action, market |-> market, reason |-> reason, price |-> price,
     volume |-> None, score |-> score]

\* line 117
stopLossPrice(entryPrice, stopLossPercentShortTerm) ==
    RMul(entryPrice, RSub(I(1), RDiv(stopLossPercentShortTerm, I(100))))

\* lines 151-152
profitTargetPrice(entryPrice, profitTargetPercentShortTerm) ==
    RMul(entryPrice, RAdd(I(1), RDiv(profitTargetPercentShortTerm, I(100))))

\* line 113
holdsPosition(currentPosition) ==
    IsSome(currentPosition) /\ RGt(Get(currentPosition).volume, I(0))

\* lines 45-61: the parameters with their fallbacks
parameters(strategyCfg) ==
    [bollingerPeriod |-> OrDefault(strategyCfg.bollingerPeriod, 20),
     bollingerStdDev |-> OrDefault(strategyCfg.bollingerStdDev, I(2)),
     emaShortPeriod |-> OrDefault(strategyCfg.emaShortPeriod, 5),
     emaMidPeriod |-> OrDefault(strategyCfg.emaMidPeriod, 10),
     emaLongPeriod |-> OrDefault(strategyCfg.emaLongPeriod, 20),
     rsiPeriod |-> OrDefault(strategyCfg.rsiPeriod, 14),
     buyScoreThresholdShortTerm |-> OrDefault(strategyCfg.buyScoreThresholdShortTerm, I(80)),
     stopLossPercentShortTerm |-> OrDefault(strategyCfg.stopLossPercentShortTerm, Num(3, 2)),
     profitTargetPercentShortTerm |->
         OrDefault(strategyCfg.profitTargetPercentShortTerm, I(3)),
     macdShortPeriod |-> OrDefault(strategyCfg.macdShortPeriod, 12),
     macdLongPeriod |-> OrDefault(strategyCfg.macdLongPeriod, 26),
     macdSignalPeriod |-> OrDefault(strategyCfg.macdSignalPeriod, 9),
     allowPyramiding |-> OrDefault(strategyCfg.allowPyramiding, FALSE)]

\* lines 72-107: the indicators of the price and volume arrays
indicators(closePrices, volumes, p) ==
    [bollingerBands |->
         calculateBollingerBands(closePrices, p.bollingerPeriod, p.bollingerStdDev),
     emaShort |-> calculateEMA(reverse(closePrices), p.emaShortPeriod),
     emaMid |-> calculateEMA(reverse(closePrices), p.emaMidPeriod),
     emaLong |-> calculateEMA(reverse(closePrices), p.emaLongPeriod),
     rsi |-> calculateRSI(closePrices, p.rsiPeriod),
     currentVolume |-> IF volumes = << >> THEN NaN ELSE volumes[1],
     avgVolume |-> RDiv(sum(slice(volumes, 1, p.bollingerPeriod + 1)),
                        I(p.bollingerPeriod)),
     macdResult |-> calculateMACD(closePrices, p.macdShortPeriod, p.macdLongPeriod,
                                  p.macdSignalPeriod)]

\* lines 119-147: at or below the stop-loss price
stopLossBranch(market, currentPrice, pyramidingSignal) ==
    IF IsSome(pyramidingSignal) THEN Get(pyramidingSignal)
    ELSE StrategyResult("sell", market, "stopLoss", Some(currentPrice), I(100))

\* lines 182-199
entryBranch(market, currentPrice, score, buyScoreThresholdShortTerm) ==
    IF RGe(score, buyScoreThresholdShortTerm)
    THEN StrategyResult("buy", market, "newEntry", Some(currentPrice), score)
    ELSE StrategyResult("hold", market, "wait", None,
                        IF RGt(score, I(0)) THEN score ELSE I(0))

\* lines 109-199
decide(market, currentPrice, currentPosition, strategyCfg, p, ind) ==
    IF /\ holdsPosition(currentPosition)
       /\ RLe(currentPrice,
              stopLossPrice(Get(currentPosition).entryPrice, p.stopLossPercentShortTerm))
    THEN stopLossBranch(market, currentPrice,
             IF p.allowPyramiding
             THEN handlePyramidingSignal(market, currentPrice, ind.rsi, ind.macdResult,
                                         Get(currentPosition), strategyCfg,
                                         p.buyScoreThresholdShortTerm, I(0))
             ELSE None)
    ELSE IF /\ holdsPosition(currentPosition)
            /\ RGe(currentPrice,
                   profitTargetPrice(Get(currentPosition).entryPrice,
                                     p.profitTargetPercentShortTerm))
    THEN StrategyResult("sell", market, "takeProfit", Some(currentPrice), I(95))
    ELSE entryBranch(market, currentPrice,
             calculateBuyScore(currentPrice, ind.bollingerBands, ind.emaShort, ind.emaMid,
                               ind.emaLong, ind.rsi, ind.currentVolume, ind.avgVolume,
                               strategyCfg, ind.macdResult).score,
             p.buyScoreThresholdShortTerm)

\* lines 63-199
signalWith(market, closePrices, volumes, currentPosition, strategyCfg, p) ==
    IF insufficientData(Len(closePrices), p.bollingerPeriod, p.emaLongPeriod, p.rsiPeriod)
    THEN StrategyResult("hold", market, "insufficientData", None, I(0))
    ELSE decide(market, closePrices[1], currentPosition, strategyCfg, p,
                indicators(closePrices, volumes, p))

\* lines 44-199
signalUnder(market, closePrices, volumes, currentPosition, strategyCfg) ==
    signalWith(market, closePrices, volumes, currentPosition, strategyCfg,
               parameters(strategyCfg))

\* lines 23-200
generateSignal(market, closePrices, volumes, currentPosition, strategyCfgInput) ==
    signalUnder(market, closePrices, volumes, currentPosition,
                mergeStrategyConfig(strategyCfgInput))

-----------------------------------------------------------------------------
(* RiskManager (part_004), the allocator of the live trading cycle.        *)
(*                                                                         *)
(* The reason of a StrategyResult is kept as the branch that produced it:  *)
(* the stop-loss text starts with the stop-loss marker, the take-profit    *)
(* text with the take-profit marker.  The pyramiding text carries the      *)
(* ordinal of the increment inside its brackets, so the bracketed          *)
(* pyramiding marker that line 46 looks for never occurs in it.            *)

\* config.upbit.minOrderAmountKRW (config.ts line 33)
minOrderAmountKRW == 5000

\* line 38: config.trading.maxTradeBalancePercentage is not set, so 25
maxTradeBalancePercentage == 25

\* config.trading.tradeAmount (config.ts line 39)
tradeAmount == 5200

\* lines 40-43
maxInvestmentAmount(krwBalance) ==
    RMax(I(minOrderAmountKRW), RMul(krwBalance, Num(maxTradeBalancePercentage, 100)))

\* line 46
isPyramidingReason(reason) == FALSE

\* lines 53-64: the position value times pyramidingOrderSizeRatio (0.5), scaled by
\* the score
pyramidingInvestment(score, currentEntryPrice, currentVolume) ==
    RMul(RMul(currentEntryPrice, currentVolume),
         RMul(Num(1, 2), RAdd(Num(1, 2), RDiv(score, I(200)))))

\* lines 81-90
newPositionInvestment(score, minInvestmentAmount, maxAmount) ==
    IF RLe(score, I(0)) THEN minInvestmentAmount
    ELSE IF RGe(score, I(100)) THEN maxAmount
    ELSE RAdd(minInvestmentAmount,
              RMul(RSub(maxAmount, minInvestmentAmount), RDiv(score, I(100))))

\* lines 48-99
baseInvestmentAmount(signal, currentPosition, maxAmount) ==
    IF isPyramidingReason(signal.reason)
    THEN IF /\ IsSome(currentPosition)
            /\ Truthy(Get(currentPosition).entryPrice)
            /\ RGt(Get(currentPosition).volume, I(0))
         THEN pyramidingInvestment(signal.score, Get(currentPosition).entryPrice,
                                   Get(currentPosition).volume)
         ELSE I(tradeAmount)
    ELSE newPositionInvestment(signal.score, I(minOrderAmountKRW), maxAmount)

\* lines 101-117
finalInvestmentAmount(base, maxAmount, krwBalance) ==
    IF RGt(RMin(base, maxAmount), krwBalance) THEN krwBalance ELSE RMin(base, maxAmount)

\* lines 119-129; null is << >>
amountOrNull(amount) == IF RLt(amount, I(minOrderAmountKRW)) THEN None ELSE Some(amount)

\* lines 27-130
determineInvestmentAmountForBuy(signal, krwBalance, currentPosition) ==
    amountOrNull(finalInvestmentAmount(
                     baseInvestmentAmount(signal, currentPosition,
                                          maxInvestmentAmount(krwBalance)),
                     maxInvestmentAmount(krwBalance), krwBalance))

\* lines 150-151 and 159
isStopLossReason(reason) == reason = "stopLoss"
isTakeProfitReason(reason) == reason = "takeProfit"

\* lines 161-162: at least half of the position, more with the score
takeProfitVolume(volume, score) == RMul(volume, RMax(Num(1, 2), RDiv(score, I(100))))

\* lines 175-198
scoredSellVolume(volume, score) ==
    IF RGe(score, I(60))
    THEN RMul(volume, RAdd(Num(6, 10), RDiv(RSub(score, I(60)), I(100))))
    ELSE RMul(volume, Num(3, 10))

\* lines 140-199; null is << >>
determineOrderVolumeForSell(signal, currentPosition) ==
    IF ~IsSome(currentPosition) \/ RLe(Get(currentPosition).volume, I(0)) THEN None
    ELSE IF isStopLossReason(signal.reason) THEN Some(Get(currentPosition).volume)
    ELSE IF isTakeProfitReason(signal.reason)
    THEN Some(takeProfitVolume(Get(currentPosition).volume, signal.score))
    ELSE Some(scoredSellVolume(Get(currentPosition).volume, signal.score))

-----------------------------------------------------------------------------
(* One evaluation of the decision engine on drawn inputs, followed by the  *)
(* allocator call of the live trading cycle (SignalSpec)                   *)

SignalPrices == {I(90), I(100), I(110)}
SignalLengths == 0..4

\* arrays whose current price is exactly the default stop-loss price (98.5) or
\* take-profit price (103) of a position entered at 100
ThresholdCloses ==
    {<<Num(197, 2), I(100), I(100)>>, <<Num(197, 2), I(110), I(100)>>,
     <<I(103), I(100), I(100)>>}

\* close-price arrays, newest first
SignalCloses == UNION {[1..n -> SignalPrices] : n \in SignalLengths} \cup ThresholdCloses

SignalVolumes == {<<I(3), I(1), I(1), I(1)>>}

SignalPositions ==
    {None,
     Some([market |-> "KRW-BTC", entryPrice |-> I(100), volume |-> I(1),
           pyramidingCount |-> None]),
     Some([market |-> "KRW-BTC", entryPrice |-> I(100), volume |-> I(1),
           pyramidingCount |-> Some(1)]),
     Some([market |-> "KRW-BTC", entryPrice |-> I(100), volume |-> I(1),
           pyramidingCount |-> Some(2)])}

\* short lookbacks, so that short arrays reach every branch
ShortPeriods ==
    [EmptyConfig EXCEPT
        !.bollingerPeriod = Some(2), !.emaShortPeriod = Some(1),
        !.emaMidPeriod = Some(2), !.emaLongPeriod = Some(3), !.rsiPeriod = Some(2),
        !.macdShortPeriod = Some(1), !.macdLongPeriod = Some(2),
        !.macdSignalPeriod = Some(2)]

\* a MACD that needs 5 prices, more than the 3 or 4 the other indicators need
LongMacdConfigs ==
    {[ShortPeriods EXCEPT !.allowPyramiding = a, !.rsiPeriod = Some(r),
                          !.macdLongPeriod = Some(3), !.macdSignalPeriod = Some(3)] :
        a \in {None, Some(TRUE)}, r \in {2, 3}}

SignalConfigs ==
    {[ShortPeriods EXCEPT !.allowPyramiding = a, !.rsiPeriod = Some(r),
                          !.stopLossPercentShortTerm = sl,
                          !.profitTargetPercentShortTerm = sl] :
        a \in {None, Some(TRUE)}, r \in {2, 3}, sl \in {None, Some(I(0))}}
    \cup LongMacdConfigs

SignalInit ==
    /\ setLedgerInit
    /\ lastCall = NoCall
    /\ liveIdle
    /\ \E c \in SignalCloses, v \in SignalVolumes, pos \in SignalPositions,
          cfg \in SignalConfigs :
         sigIn = Some([market |-> "KRW-BTC", closePrices |-> c, volumes |-> v,
                       currentPosition |-> pos, strategyCfgInput |-> cfg])
    /\ sigOut = None
    /\ run = idle

GenerateSignal ==
    /\ IsSome(sigIn)
    /\ sigOut = None
    /\ sigOut' = Some(generateSignal(Get(sigIn).market, Get(sigIn).closePrices,
                                     Get(sigIn).volumes, Get(sigIn).currentPosition,
                                     Get(sigIn).strategyCfgInput))
    /\ UNCHANGED <<ledgerVars, lastCall, sigIn, run, liveVars>>

\* PortfolioManager.getKrwBalance() at the time of the allocator call
KrwBalances == {I(4000), I(5000), I(10000), I(40000)}

\* runTradingCycle (part_002) lines 140-143: a buy signal with a price is sized
DetermineInvestmentAmountForBuy ==
    /\ IsSome(sigOut)
    /\ lastCall = NoCall
    /\ Get(sigOut).action = "buy" /\ IsSome(Get(sigOut).price)
    /\ \E krwBalance \in KrwBalances :
         lastCall' = [op |-> "determineInvestmentAmountForBuy", order |-> None,
                      candle |-> None, krwBalance |-> krwBalance,
                      ret |-> determineInvestmentAmountForBuy(
                                  Get(sigOut), krwBalance, Get(sigIn).currentPosition)]
    /\ UNCHANGED <<ledgerVars, sigIn, sigOut, run, liveVars>>

\* runTradingCycle (part_002) lines 192-199: a sell signal on a held position is sized
DetermineOrderVolumeForSell ==
    /\ IsSome(sigOut)
    /\ lastCall = NoCall
    /\ Get(sigOut).action = "sell" /\ IsSome(Get(sigOut).price)
    /\ holdsPosition(Get(sigIn).currentPosition)
    /\ lastCall' = [op |-> "determineOrderVolumeForSell", order |-> None,
                    candle |-> None,
                    ret |-> determineOrderVolumeForSell(Get(sigOut),
                                                        Get(sigIn).currentPosition)]
    /\ UNCHANGED <<ledgerVars, sigIn, sigOut, run, liveVars>>

SignalNext ==
    \/ GenerateSignal
    \/ DetermineInvestmentAmountForBuy
    \/ DetermineOrderVolumeForSell

SignalSpec == SignalInit /\ [][SignalNext]_vars

-----------------------------------------------------------------------------
(* Claims about the decision engine, checked under SignalSpec              *)

\* the evaluation has returned
returned == IsSome(sigIn) /\ IsSome(sigOut)

inCloses == Get(sigIn).closePrices
inPosition == Get(sigIn).currentPosition
inConfig == mergeStrategyConfig(Get(sigIn).strategyCfgInput)
out == Get(sigOut)

\* the lookbacks the length guard names, as the merged configuration gives them
requiredLength ==
    Max3(OrDefault(inConfig.bollingerPeriod, 20),
         OrDefault(inConfig.emaLongPeriod, 20),
         OrDefault(inConfig.rsiPeriod, 14) + 1)

enoughData == Len(inCloses) >= requiredLength

held == IsSome(inPosition) /\ RGt(Get(inPosition).volume, I(0))

atStopLoss ==
    /\ enoughData
    /\ held
    /\ RLe(inCloses[1],
           RMul(Get(inPosition).entryPrice,
                RSub(I(1), RDiv(OrDefault(inConfig.stopLossPercentShortTerm, Num(3, 2)),
                                I(100)))))

atTakeProfit ==
    /\ enoughData
    /\ held
    /\ RGe(inCloses[1],
           RMul(Get(inPosition).entryPrice,
                RAdd(I(1), RDiv(OrDefault(inConfig.profitTargetPercentShortTerm, I(3)),
                                I(100)))))

\* C1: for a held position whose current price satisfies both the stop-loss and
\* the take-profit condition, generateSignal returns the stop-loss sell and
\* never the take-profit sell.
C1_StopLossBeforeTakeProfit ==
    (returned /\ atStopLoss /\ atTakeProfit)
        => (out.action = "sell" /\ out.reason = "stopLoss")

\* C2: whenever a position is held and the current price is at or below
\* entry * (1 - stopLoss / 100), generateSignal returns sell, never buy or hold,
\* whatever the configuration (allowPyramiding = true included).
C2_StopLossAlwaysSells ==
    (returned /\ atStopLoss) => out.action = "sell"

\* C9: on a close series shorter than max(bollingerPeriod, emaLongPeriod,
\* rsiPeriod + 1), generateSignal returns hold with score 0 and evaluates no
\* stop-loss, take-profit, pyramiding or entry branch.
C9_InsufficientDataHolds ==
    (returned /\ ~enoughData)
        => /\ out.action = "hold"
           /\ out.score = I(0)
           /\ out.reason = "insufficientData"
           /\ out.price = None

\* a held position on a series one price short of rsiPeriod + 1, the binding lookback
C9_Witness ==
    /\ returned
    /\ held
    /\ Len(inCloses) = requiredLength - 1
    /\ Len(inCloses) >= OrDefault(inConfig.bollingerPeriod, 20)
    /\ Len(inCloses) >= OrDefault(inConfig.emaLongPeriod, 20)
    /\ out.reason = "insufficientData"

\* C14: generateSignal returns a new-entry buy only when no position is passed in
\* or the passed position has volume 0; with a position of volume > 0 held and no
\* exit firing, the result is never a new-entry buy.
C14_NewEntryOnlyWithoutPosition ==
    (returned /\ out.action = "buy" /\ out.reason = "newEntry") => ~held

\* the indicators generateSignal computes on the drawn arrays
inIndicators == indicators(inCloses, Get(sigIn).volumes, parameters(inConfig))

\* the sell-pressure score of a held position, the profit rate being
\* (currentPrice / entryPrice - 1) * 100
sellPressureOf(currentPrice, position, strategyCfg, ind) ==
    calculateSellPressureScore(currentPrice, ind.bollingerBands, ind.emaShort,
                               ind.emaMid, ind.rsi, strategyCfg,
                               Some(RMul(RSub(RDiv(currentPrice, position.entryPrice),
                                              I(1)), I(100))),
                               ind.macdResult).score

sellPressure == sellPressureOf(inCloses[1], Get(inPosition), inConfig, inIndicators)

\* a position is held and neither the stop-loss nor the take-profit fires
heldWithoutExit == enoughData /\ held /\ ~atStopLoss /\ ~atTakeProfit

\* C15: with sufficient history and a held position for which neither stop-loss nor
\* take-profit fires, generateSignal returns action sell whenever the sell-pressure
\* score is at or above sellScoreThresholdShortTerm, whatever the buy score is.
C15_SellPressureSells ==
    (returned /\ heldWithoutExit /\ RGe(sellPressure, sellScoreThresholdShortTerm))
        => out.action = "sell"

\* the result is an incremental buy on the held position
pyramidingBuy == returned /\ out.action = "buy" /\ out.reason = "pyramiding"

inPyramidingCount ==
    IF IsSome(Get(inPosition).pyramidingCount) THEN Get(Get(inPosition).pyramidingCount)
    ELSE 0

\* the price is at least the configured percentage below the entry price
\* (1.5 times the percentage from the second increment on)
droppedToTarget ==
    RLe(RDiv(inCloses[1], Get(inPosition).entryPrice),
        expectedRatio(inPyramidingCount,
                      OrDefault(inConfig.pyramidingConditionDropPercent, I(5))))

\* the RSI lies inside the band of pyramidingRsiCondition
rsiInBand(rsi, pyramidingRsiCondition) ==
    /\ RLt(rsi, OrElse(pyramidingRsiCondition.below, I(40)))
    /\ (IsSome(pyramidingRsiCondition.above) /\ Truthy(Get(pyramidingRsiCondition.above)))
           => RGt(rsi, Get(pyramidingRsiCondition.above))

inRsiInBand ==
    rsiInBand(inIndicators.rsi, OrDefault(inConfig.pyramidingRsiCondition, NoRsiCondition))

atPyramidingThreshold ==
    RGe(out.score, RMul(parameters(inConfig).buyScoreThresholdShortTerm, Num(6, 10)))

\* C16: generateSignal returns a pyramiding buy only if the price has fallen at least
\* pyramidingConditionDropPercent below the entry price (1.5 times that from the second
\* increment on) AND the RSI lies inside the pyramidingRsiCondition band AND the
\* pyramiding score is at least 0.6 times buyScoreThresholdShortTerm.
C16_PyramidingNeedsDropAndRsi ==
    pyramidingBuy => (droppedToTarget /\ inRsiInBand /\ atPyramidingThreshold)

\* the part of C16 the code does enforce: the score gate
C16_PyramidingNeedsScore == pyramidingBuy => atPyramidingThreshold

\* the result is a sell from the stop-loss or the take-profit branch
exitSell == returned /\ out.action = "sell" /\ out.reason \in {"stopLoss", "takeProfit"}

\* a position entered at 100 under stop-loss 1.5 % and take-profit 3.0 %
enteredAt100 ==
    /\ returned /\ enoughData /\ held
    /\ Get(inPosition).entryPrice = I(100)
    /\ parameters(inConfig).stopLossPercentShortTerm = Num(3, 2)
    /\ parameters(inConfig).profitTargetPercentShortTerm = I(3)

\* C17: a sell returned from the stop-loss or take-profit branch carries the full held
\* volume, and both thresholds are inclusive: entered at 100 with stop-loss 1.5 % and
\* take-profit 3.0 %, price 98.5 yields a stop-loss sell of the full volume and price
\* 103 yields a take-profit sell.
C17_ExitSellCarriesFullVolume ==
    /\ exitSell => out.volume = Some(Get(inPosition).volume)
    /\ (enteredAt100 /\ inCloses[1] = Num(197, 2))
           => (out.action = "sell" /\ out.reason = "stopLoss"
               /\ out.volume = Some(Get(inPosition).volume))
    /\ (enteredAt100 /\ inCloses[1] = I(103))
           => (out.action = "sell" /\ out.reason = "takeProfit")

\* the part of C17 that holds when pyramiding is off: the thresholds are inclusive
C17_ThresholdsInclusive ==
    (enteredAt100 /\ ~parameters(inConfig).allowPyramiding)
        => /\ inCloses[1] = Num(197, 2) => (out.action = "sell" /\ out.reason = "stopLoss")
           /\ inCloses[1] = I(103) => (out.action = "sell" /\ out.reason = "takeProfit")

-----------------------------------------------------------------------------
(* Claims about the allocator (RiskManager), checked under SignalSpec      *)

\* the allocator has sized the sell of a stop-loss or take-profit decision
exitSellSized == exitSell /\ lastCall.op = "determineOrderVolumeForSell"

\* what is left of the held volume once the sized order is filled
residualVolume == RSub(Get(inPosition).volume, Get(lastCall.ret))

\* C18: for every sell decision caused by stop-loss or take-profit the allocator
\* submits the entire held volume, so that nothing of the position remains once the
\* order is applied.
C18_ExitSellsEverything ==
    exitSellSized => (lastCall.ret = Some(Get(inPosition).volume)
                      /\ residualVolume = I(0))

\* the part of C18 that holds: a stop-loss sell is sized to the whole position
C18_StopLossSellsEverything ==
    (exitSellSized /\ out.reason = "stopLoss")
        => lastCall.ret = Some(Get(inPosition).volume)

\* config.upbit.feeRate (config.ts line 32): 0.05 % of the traded amount
upbitFeeRate == Num(5, 10000)

\* the allocator has returned an amount for a buy, or a volume for a sell
buySized == returned /\ lastCall.op = "determineInvestmentAmountForBuy" /\ IsSome(lastCall.ret)
sellSized == returned /\ lastCall.op = "determineOrderVolumeForSell" /\ IsSome(lastCall.ret)

\* C20: every buy the allocator sizes costs, fee included, no more than the cash at
\* that moment, and every sell it sizes has a volume no greater than the held volume,
\* so that no sized order is refused for lack of cash or of held volume.
C20_OrdersWithinMeans ==
    /\ buySized => RLe(RMul(Get(lastCall.ret), RAdd(I(1), upbitFeeRate)),
                       lastCall.krwBalance)
    /\ sellSized => RLe(Get(lastCall.ret), Get(inPosition).volume)

\* the part of C20 that holds: fee aside, the amount is within the cash, and the
\* sell volume within the holding
C20_WithinMeansFeeAside ==
    /\ buySized => RLe(Get(lastCall.ret), lastCall.krwBalance)
    /\ sellSized => RLe(Get(lastCall.ret), Get(inPosition).volume)

\* a pyramiding buy, as generateSignal emits it, has been handed to the allocator
pyramidingSized ==
    /\ returned
    /\ lastCall.op = "determineInvestmentAmountForBuy"
    /\ out.reason = "pyramiding"

\* the amount the allocator returns when its base amount is the one given
amountFromBase(base, krwBalance) ==
    amountOrNull(finalInvestmentAmount(base, maxInvestmentAmount(krwBalance), krwBalance))

\* C21: for an incremental (pyramiding) buy as generateSignal emits it, the
\* allocator's base amount is entry price x held volume x pyramidingOrderSizeRatio
\* x (0.5 + score/200), a function of the position's value and not of the cash
\* balance, bounded above by the max-ratio ceiling.
C21_PyramidingSizedFromPosition ==
    pyramidingSized =>
        lastCall.ret = amountFromBase(
                           pyramidingInvestment(out.score, Get(inPosition).entryPrice,
                                                Get(inPosition).volume),
                           lastCall.krwBalance)

\* what the allocator does with a pyramiding buy: the new-entry interpolation
\* between the minimum order amount and the share of the cash balance
C21_PyramidingSizedFromCash ==
    pyramidingSized =>
        lastCall.ret = amountFromBase(
                           newPositionInvestment(out.score, I(minOrderAmountKRW),
                                                 maxInvestmentAmount(lastCall.krwBalance)),
                           lastCall.krwBalance)

\* a pyramiding buy on a position worth 100 was given an amount
C21_PyramidingGotAmount ==
    /\ pyramidingSized
    /\ IsSome(lastCall.ret)
    /\ lastCall.krwBalance = I(40000)

\* the prices pass the length guard of generateSignal and are fewer than
\* calculateMACD needs
macdUnavailable ==
    /\ returned
    /\ enoughData
    /\ Len(inCloses) < parameters(inConfig).macdLongPeriod
                       + parameters(inConfig).macdSignalPeriod - 1

\* the decision generateSignal reaches on the drawn inputs when the MACD is given
decisionWithMacd(macdResult) ==
    decide(Get(sigIn).market, inCloses[1], inPosition, inConfig, parameters(inConfig),
           [inIndicators EXCEPT !.macdResult = macdResult])

\* C28: on a series long enough for the length guard and shorter than
\* macdLongPeriod + macdSignalPeriod - 1, calculateMACD returns null,
\* generateSignal still returns a decision, and the MACD term of every score
\* computed on that tick is 0.
C28_MacdUnavailableScoresZero ==
    macdUnavailable =>
        /\ inIndicators.macdResult = None
        /\ macdScore(inIndicators.macdResult) = I(0)
        /\ sellMacdScore(inIndicators.macdResult) = I(0)
        /\ pyramidingMacdScore(inIndicators.macdResult) = I(0)
        /\ out = decisionWithMacd(None)
        /\ out.action \in {"buy", "sell", "hold"}
        /\ out.reason # "insufficientData"

\* reachable: four prices, a MACD that needs five, and a score above 0 made of
\* the other indicators
C28_Witness ==
    /\ macdUnavailable
    /\ Len(inCloses) = 4
    /\ out.reason \in {"newEntry", "wait"}
    /\ RGt(out.score, I(0))

-----------------------------------------------------------------------------
(* Backtester, BacktestStrategyOrchestrator, BacktestDataManager,          *)
(* MockOrderExecutor                                                       *)
(*                                                                         *)
(* A BacktestStrategyConfig has the decision engine's keys (it is an open  *)
(* record that is spread into the engine's configuration) and the keys of  *)
(* the replay itself.  One market and one candle unit are loaded.          *)

BacktestOnlyKeys ==
    {"candleCount", "rsiOverbought", "rsiOversold", "minTradeVolume", "maxTradeRatio",
     "stopLossPercent", "takeProfitPercent", "feeRate", "initialBalance",
     "sellRatioOfPosition"}

\* the empty object {}
EmptyBacktestConfig ==
    [k \in (DOMAIN EmptyConfig) \cup BacktestOnlyKeys |-> None]

\* backtester.ts lines 18-37 (volumes in units of 1e-8: 0.0001 is 10000)
DEFAULT_STRATEGY_CONFIG ==
    [EmptyBacktestConfig EXCEPT
        !.candleCount = Some(200),
        !.bollingerPeriod = Some(20),
        !.bollingerStdDev = Some(I(2)),
        !.rsiPeriod = Some(14),
        !.rsiOverbought = Some(I(70)),
        !.rsiOversold = Some(I(30)),
        !.minTradeVolume = Some(I(10000)),
        !.maxTradeRatio = Some(Num(1, 4)),
        !.stopLossPercent = Some(Num(5, 100)),
        !.takeProfitPercent = Some(Num(10, 100)),
        !.feeRate = Some(Num(5, 10000)),
        !.initialBalance = Some(I(1000000))]

\* "n || fallback" for an optional integer
IntOrElse(o, fallback) == IF IsSome(o) /\ Get(o) # 0 THEN Get(o) ELSE fallback

\* a slip: the window ends one candle after endIndex
getCandles_LookAhead(candlesForKey, count, endIndex) ==
    IF Len(candlesForKey) = 0 \/ endIndex < 0 THEN << >>
    ELSE LET actualEndIndex == Min2(endIndex + 1, Len(candlesForKey) - 1)
             startIndex == Max2(0, actualEndIndex - count + 1)
         IN  reverse(slice(candlesForKey, startIndex, actualEndIndex + 1))

\* BacktestDataManager.getCandles: the count candles up to endIndex, newest first
getCandles(candlesForKey, count, endIndex) ==
    IF Len(candlesForKey) = 0 \/ endIndex < 0 THEN << >>
    ELSE LET actualEndIndex == Min2(endIndex, Len(candlesForKey) - 1)
             startIndex == Max2(0, actualEndIndex - count + 1)
         IN  reverse(slice(candlesForKey, startIndex, actualEndIndex + 1))

\* backtester.ts lines 475-505
convertToCoreStrategyConfig(config) ==
    [k \in DOMAIN EmptyConfig |->
        CASE k = "rsiOverboughtThreshold" -> config.rsiOverbought
          [] k = "rsiOversoldThreshold" -> config.rsiOversold
          [] k = "weights" -> Some(OrDefault(config.weights, NoWeights))
          [] k = "pyramidingRsiCondition" ->
                 Some(OrDefault(config.pyramidingRsiCondition, NoRsiCondition))
          [] k = "stopLossPercentShortTerm" ->
                 IF IsSome(config.stopLossPercent)
                 THEN Some(RMul(Get(config.stopLossPercent), I(100))) ELSE None
          [] k = "profitTargetPercentShortTerm" ->
                 IF IsSome(config.takeProfitPercent)
                 THEN Some(RMul(Get(config.takeProfitPercent), I(100))) ELSE None
          [] OTHER -> config[k]]

\* lines 534-538: the orchestrator's own length check
notEnoughCandles(length, strategyConfig) ==
    \/ length = 0
    \/ length < IntOrElse(strategyConfig.bollingerPeriod, 20)
    \/ length < IntOrElse(strategyConfig.rsiPeriod, 14 + 1)

\* lines 562-573: the decision engine's answer as a BacktestStrategySignal,
\* together with the candles and close prices the engine was called with
backtestSignal(coreSignal, closePrices, candles) ==
    [signal |-> [action |-> coreSignal.action, market |-> coreSignal.market,
                 reason |-> coreSignal.reason, price |-> coreSignal.price,
                 score |-> Some(coreSignal.score)],
     engineInput |-> Some(closePrices),
     engineCandles |-> Some(candles)]

\* lines 546-573: the call of the decision engine
signalForPrices(L, market, strategyConfig, closePrices, tradeVolumes, candles) ==
    backtestSignal(generateSignal(market, closePrices, tradeVolumes,
                                  convertToCorePosition(getPosition(L, market)),
                                  convertToCoreStrategyConfig(strategyConfig)),
                   closePrices, candles)

\* lines 534-573
signalForCandles(L, market, strategyConfig, candles) ==
    IF notEnoughCandles(Len(candles), strategyConfig)
    THEN [signal |-> [action |-> "hold", market |-> market,
                      reason |-> "notEnoughCandles", price |-> None, score |-> None],
          engineInput |-> None, engineCandles |-> None]
    ELSE signalForPrices(L, market, strategyConfig,
                         [j \in 1..Len(candles) |-> candles[j].trade_price],
                         [j \in 1..Len(candles) |-> candles[j].candle_acc_trade_volume],
                         candles)

\* lines 518-612.  Returns the signal and, when the decision engine was called,
\* the close prices it was called with.
determineSignalForMarket(L, allCandles, market, strategyConfig, currentCandleIndex) ==
    signalForCandles(L, market, strategyConfig,
                     getCandles(allCandles, IntOrElse(strategyConfig.candleCount, 200),
                                currentCandleIndex))

minTradeValueKRW == 5000

\* lines 102 and 108: the share of the spendable cash an order may use
ratioSpend(availableBalance, maxTradeRatio, rate) ==
    RMul(RDiv(availableBalance, RAdd(I(1), rate)), maxTradeRatio)

\* lines 101-126
buyVolume(availableBalance, currentPrice, maxTradeRatio, minTradeVolumeAsset, rate) ==
    LET maxSpendable == RDiv(availableBalance, RAdd(I(1), rate))
        targetByRatio == ratioSpend(availableBalance, maxTradeRatio, rate)
        targetSpend == IF RLt(targetByRatio, I(minTradeValueKRW))
                       THEN I(minTradeValueKRW) ELSE targetByRatio
        volume == RDiv(targetSpend, currentPrice)
        costForMinAssetVolume == RMul(minTradeVolumeAsset, currentPrice)
    IN  IF RLt(maxSpendable, I(minTradeValueKRW)) THEN I(0)
        ELSE IF RLt(volume, minTradeVolumeAsset)
        THEN (IF /\ RGe(costForMinAssetVolume, I(minTradeValueKRW))
                 /\ RLe(RMul(costForMinAssetVolume, RAdd(I(1), rate)), maxSpendable)
              THEN minTradeVolumeAsset ELSE I(0))
        ELSE volume

\* lines 128-148
sellVolume(position, currentPrice, sellRatio, minTradeVolumeAsset) ==
    IF IsSome(position) /\ RGt(Get(position).volume, I(0))
    THEN LET heldNow == Get(position).volume
             volumeToSell == RMul(heldNow, sellRatio)
         IN  IF \/ RLt(volumeToSell, minTradeVolumeAsset)
                \/ RLt(RMul(volumeToSell, currentPrice), I(minTradeValueKRW))
             THEN (IF /\ RGe(heldNow, minTradeVolumeAsset)
                      /\ RGe(RMul(heldNow, currentPrice), I(minTradeValueKRW))
                   THEN heldNow ELSE I(0))
             ELSE volumeToSell
    ELSE I(0)

\* lines 89-150
calculateTradeVolume(L, market, currentPrice, action, config) ==
    LET maxTradeRatio == OrElse(config.maxTradeRatio, Num(1, 4))
        minTradeVolumeAsset == OrElse(config.minTradeVolume, I(10000))
        rate == OrElse(config.feeRate, Num(5, 10000))
    IN  IF action = "buy"
        THEN buyVolume(L.currentBalance, currentPrice, maxTradeRatio,
                       minTradeVolumeAsset, rate)
        ELSE sellVolume(getPosition(L, market), currentPrice,
                        OrElse(config.sellRatioOfPosition, I(1)), minTradeVolumeAsset)

\* lines 192-197
minCandlesForIndicators(currentRunConfig) ==
    Max2(Max2(IntOrElse(currentRunConfig.candleCount, 0),
              IntOrElse(currentRunConfig.bollingerPeriod, 0)),
         Max2(IntOrElse(currentRunConfig.rsiPeriod, 0), 20))

-----------------------------------------------------------------------------
(* Backtester.run, one loop iteration per step (specification RunSpec)     *)

\* MockOrderExecutor.createOrder: logs the order, hands it to the ledger and
\* logs the trade if there is one
createOrder(L, executor, order, currentCandle, uuid4) ==
    LET orderWithDefaults == [order EXCEPT !.uuid = IF IsSome(order.uuid) THEN order.uuid
                                                    ELSE Some(uuid4)]
        r == recordTrade(L, orderWithDefaults, currentCandle, uuid4)
    IN  [ledger |-> r.ledger,
         ret |-> r.ret,
         executor |->
             [executedOrdersLog |-> Append(executor.executedOrdersLog, orderWithDefaults),
              executedTradesLog |-> IF IsSome(r.ret)
                                    THEN Append(executor.executedTradesLog, Get(r.ret))
                                    ELSE executor.executedTradesLog]]

\* lines 236-243 and 269-276
signalOrder(market, sd, signal, volumeToTrade, uuid) ==
    [market |-> market, side |-> sd,
     ord_type |-> IF IsSome(signal.price) /\ Truthy(Get(signal.price)) THEN LIMIT ELSE MARKET,
     price |-> IF IsSome(signal.price) THEN Some(toString(Get(signal.price))) ELSE None,
     volume |-> toString(volumeToTrade),
     uuid |-> Some(uuid)]

\* lines 221-287: what the loop does with the signal; the result is the ledger,
\* the executor and the three signal counters
actOnSignal(L, st, signal, currentCandle, uuid) ==
    LET market == st.market
        config == st.config
        side == IF signal.action = "buy" THEN BID ELSE ASK
        currentPosition == getPosition(L, market)
        computed == calculateTradeVolume(L, market, currentCandle.trade_price,
                                         signal.action, config)
        \* the signal carries no volume: volumeToTrade comes from calculateTradeVolume
        volumeToTrade ==
            IF signal.action = "sell" /\ RGt(computed, Get(currentPosition).volume)
            THEN Get(currentPosition).volume ELSE computed
        placed == createOrder(L, st.executor,
                              signalOrder(market, side, signal, volumeToTrade, uuid),
                              currentCandle, uuid)
        skipped == [ledger |-> L, executor |-> st.executor, buySignals |-> st.buySignals,
                    sellSignals |-> st.sellSignals, holdSignals |-> st.holdSignals + 1]
    IN  IF signal.action = "buy"
        THEN (IF Truthy(volumeToTrade) /\ RGt(volumeToTrade, I(0))
              THEN [ledger |-> placed.ledger, executor |-> placed.executor,
                    buySignals |-> st.buySignals + 1, sellSignals |-> st.sellSignals,
                    holdSignals |-> st.holdSignals]
              ELSE [skipped EXCEPT !.holdSignals = st.holdSignals])
        ELSE IF signal.action = "sell"
        THEN (IF ~IsSome(currentPosition) \/ RLe(Get(currentPosition).volume, I(0))
              THEN skipped
              ELSE IF Truthy(volumeToTrade) /\ RGt(volumeToTrade, I(0))
              THEN [ledger |-> placed.ledger, executor |-> placed.executor,
                    buySignals |-> st.buySignals, sellSignals |-> st.sellSignals + 1,
                    holdSignals |-> st.holdSignals]
              ELSE skipped)
        ELSE skipped

\* a drawdown measured on the cash alone
drawdownAfter_CashOnly(L, peakBalance, maxDrawdown) ==
    LET currentTotalAssetValue == L.currentBalance
        peak == IF RGt(currentTotalAssetValue, peakBalance)
                THEN currentTotalAssetValue ELSE peakBalance
        drawdown == IF RGt(peak, I(0))
                    THEN RDiv(RSub(peak, currentTotalAssetValue), peak) ELSE I(0)
    IN  [peakBalance |-> peak,
         maxDrawdown |-> IF RGt(drawdown, maxDrawdown) THEN drawdown ELSE maxDrawdown]

\* lines 290-300
drawdownAfter(L, peakBalance, maxDrawdown) ==
    LET currentTotalAssetValue == getTotalAssetValue(L)
        peak == IF RGt(currentTotalAssetValue, peakBalance)
                THEN currentTotalAssetValue ELSE peakBalance
        drawdown == IF RGt(peak, I(0))
                    THEN RDiv(RSub(peak, currentTotalAssetValue), peak) ELSE I(0)
    IN  [peakBalance |-> peak,
         maxDrawdown |-> IF RGt(drawdown, maxDrawdown) THEN drawdown ELSE maxDrawdown]

\* lines 303-340
runResult(L, st) ==
    LET log == getTrades(L)
        finalBalance == getTotalAssetValue(L)
        totalProfit == RSub(finalBalance, L.initialBalance)
        winCount == Cardinality({j \in 1..Len(log) :
                        IsSome(log[j].profit) /\ RGt(Get(log[j].profit), I(0))})
        lossCount == Cardinality({j \in 1..Len(log) :
                        IsSome(log[j].profit) /\ RLt(Get(log[j].profit), I(0))})
    IN  [market |-> st.market,
         initialBalance |-> L.initialBalance,
         finalBalance |-> finalBalance,
         totalProfit |-> totalProfit,
         totalProfitRate |-> IF RGt(L.initialBalance, I(0))
                             THEN RDiv(totalProfit, L.initialBalance) ELSE I(0),
         trades |-> log,
         winCount |-> winCount,
         lossCount |-> lossCount,
         winRate |-> IF winCount + lossCount > 0
                     THEN Num(winCount, winCount + lossCount) ELSE I(0),
         maxDrawdown |-> st.maxDrawdown,
         buySignals |-> st.buySignals,
         sellSignals |-> st.sellSignals,
         holdSignals |-> st.holdSignals,
         strategyConfig |-> st.config,
         totalCandles |-> Len(st.allCandles),
         simulatedCandles |-> st.simulatedCandlesCount]

\* length of the flat stretch every candle file starts with
RunPrefixLength == 18
RunTailLengths == 2..3
RunTailPrices == {I(90), I(100), I(110)}

candle(price, volume, timestamp) ==
    [trade_price |-> price, candle_acc_trade_volume |-> volume, timestamp |-> timestamp]

\* a file's candles in time order (loadCandlesFromCSV sorts them by timestamp):
\* a flat stretch, then a tail of drawn prices; a rise comes with a volume spike
candleSeries(tail) ==
    [j \in 1..(RunPrefixLength + Len(tail)) |->
        IF j <= RunPrefixLength THEN candle(I(100), I(1), j)
        ELSE candle(tail[j - RunPrefixLength],
                    IF tail[j - RunPrefixLength] = I(110) THEN I(3) ELSE I(1), j)]

\* longer tails: a rise bought and sold again, and a fall bought into three times
RunLongTails == {<<I(100), I(110), I(110), I(90)>>, <<I(90), I(100), I(90), I(90)>>}

RunCandleFiles ==
    {<< >>} \cup
    {candleSeries(tail) :
        tail \in UNION {[1..n -> RunTailPrices] : n \in RunTailLengths} \cup RunLongTails}

\* a small account with short lookbacks: a window of three candles
RunBaseConfig ==
    [EmptyBacktestConfig EXCEPT
        !.candleCount = Some(3), !.bollingerPeriod = Some(2), !.rsiPeriod = Some(2),
        !.emaShortPeriod = Some(1), !.emaMidPeriod = Some(2), !.emaLongPeriod = Some(3),
        !.macdShortPeriod = Some(1), !.macdLongPeriod = Some(2),
        !.macdSignalPeriod = Some(2),
        !.buyScoreThresholdShortTerm = Some(I(40)),
        !.initialBalance = Some(I(10000)), !.feeRate = Some(Num(1, 100)),
        !.minTradeVolume = Some(I(1))]

RunConfigs ==
    {RunBaseConfig,
     \* the MACD needs four prices
     [RunBaseConfig EXCEPT !.macdLongPeriod = Some(3)],
     \* the slow EMA needs four prices
     [RunBaseConfig EXCEPT !.emaLongPeriod = Some(4)],
     \* a window of one candle
     [RunBaseConfig EXCEPT !.candleCount = Some(1)],
     \* pyramiding with at most one incremental buy, on a larger account
     [RunBaseConfig EXCEPT !.allowPyramiding = Some(TRUE),
                           !.maxPyramidingCount = Some(1),
                           !.initialBalance = Some(I(20000))]}

\* cap on the number of run() calls on one Backtester
MaxRuns == 2

\* the files of a second or later run
RunAgainFiles == {<< >>, candleSeries(<<I(110), I(110)>>)}

RunOverrides == {EmptyBacktestConfig}
RunUuids == {"u1", "u2"}

newExecutor == [executedOrdersLog |-> << >>, executedTradesLog |-> << >>]

\* new Backtester(customConfig): lines 69-87
RunInit ==
    /\ \E customConfig \in RunConfigs :
         LET strategyConfig == spread(DEFAULT_STRATEGY_CONFIG, customConfig)
             L == newLedger(Get(strategyConfig.initialBalance),
                            OrDefault(strategyConfig.feeRate, Num(5, 10000)))
         IN  /\ initialBalance = L.initialBalance
             /\ currentBalance = L.currentBalance
             /\ feeRate = L.feeRate
             /\ positions = L.positions
             /\ trades = L.trades
             /\ marketPrices = L.marketPrices
             /\ run = [phase |-> "constructed", strategyConfig |-> strategyConfig,
                       executor |-> newExecutor, runs |-> 0]
    /\ lastCall = NoCall
    /\ liveIdle
    /\ sigIn = None
    /\ sigOut = None

\* History kept for counting: the number of executed pyramiding buys on the
\* position held since it was opened (not a field of the Backtester).
incrementalBuysAfter(count, before, after, signal, market) ==
    IF getPosition(after, market) = None THEN 0
    ELSE IF signal.reason = "pyramiding" /\ Len(after.trades) > Len(before.trades)
    THEN count + 1
    ELSE count

\* History kept for comparing runs: the candles and the result of the run that
\* ended before this one started (not a field of the Backtester).
previousRun ==
    IF run.phase = "done"
    THEN Some([allCandles |-> run.allCandles, result |-> run.result])
    ELSE None

\* run(): lines 158-198, up to the loop
RunStart ==
    /\ run.phase \in {"constructed", "done", "failed"}
    /\ run.runs < MaxRuns
    /\ \E allCandles \in (IF run.runs = 0 THEN RunCandleFiles ELSE RunAgainFiles),
          runStrategyConfig \in RunOverrides :
         LET L == reset(Ledger)
         IN  /\ setLedger(L)
             /\ run' = IF Len(allCandles) = 0
                       THEN [phase |-> "failed", strategyConfig |-> run.strategyConfig,
                             executor |-> run.executor, runs |-> run.runs + 1]
                       ELSE [phase |-> "loop",
                             strategyConfig |-> run.strategyConfig,
                             executor |-> run.executor,
                             runs |-> run.runs + 1,
                             market |-> "KRW-BTC",
                             config |-> spread(run.strategyConfig, runStrategyConfig),
                             allCandles |-> allCandles,
                             i |-> 0,
                             buySignals |-> 0, sellSignals |-> 0, holdSignals |-> 0,
                             peakBalance |-> L.initialBalance,
                             maxDrawdown |-> I(0),
                             simulatedCandlesCount |-> 0,
                             signal |-> None,
                             engineInput |-> None,
                             engineCandles |-> None,
                             incrementalBuys |-> 0,
                             previous |-> previousRun]
    /\ UNCHANGED <<lastCall, sigIn, sigOut, liveVars>>

\* one iteration of the loop, lines 200-301
RunTick ==
    /\ run.phase = "loop"
    /\ run.i < Len(run.allCandles)
    /\ \E uuid \in RunUuids,
          marked \in {updateMarketPrice(Ledger, run.market,
                                        run.allCandles[run.i + 1].trade_price)} :
         IF run.i < minCandlesForIndicators(run.config) - 1
         THEN /\ setLedger(marked)
              /\ run' = [run EXCEPT !.i = run.i + 1, !.signal = None,
                                    !.engineInput = None,
                                    !.engineCandles = None]
         ELSE \E decided \in {determineSignalForMarket(marked, run.allCandles, run.market,
                                                       run.config, run.i)} :
              \E acted \in {actOnSignal(marked, run, decided.signal,
                                        run.allCandles[run.i + 1], uuid)} :
              \E dd \in {drawdownAfter(acted.ledger, run.peakBalance, run.maxDrawdown)} :
                  /\ setLedger(acted.ledger)
                  /\ run' = [run EXCEPT
                                !.i = run.i + 1,
                                !.simulatedCandlesCount = run.simulatedCandlesCount + 1,
                                !.signal = Some(decided.signal),
                                !.engineInput = decided.engineInput,
                                !.engineCandles = decided.engineCandles,
                                !.incrementalBuys =
                                    incrementalBuysAfter(run.incrementalBuys, marked,
                                                         acted.ledger, decided.signal,
                                                         run.market),
                                !.executor = acted.executor,
                                !.buySignals = acted.buySignals,
                                !.sellSignals = acted.sellSignals,
                                !.holdSignals = acted.holdSignals,
                                !.peakBalance = dd.peakBalance,
                                !.maxDrawdown = dd.maxDrawdown]
    /\ UNCHANGED <<lastCall, sigIn, sigOut, liveVars>>

\* the loop is over: lines 303-343
RunFinish ==
    /\ run.phase = "loop"
    /\ run.i = Len(run.allCandles)
    /\ run' = [phase |-> "done", strategyConfig |-> run.strategyConfig,
               executor |-> run.executor, runs |-> run.runs,
               result |-> runResult(Ledger, run),
               allCandles |-> run.allCandles, previous |-> run.previous]
    /\ UNCHANGED <<ledgerVars, lastCall, sigIn, sigOut, liveVars>>

RunNext == RunStart \/ RunTick \/ RunFinish

RunSpec == RunInit /\ [][RunNext]_vars

-----------------------------------------------------------------------------
(* Claims about Backtester.run, checked under RunSpec                      *)

\* the last tick called the decision engine
engineEvaluated == run.phase = "loop" /\ IsSome(run.engineInput)

\* the candle window the decision engine was called with on the last tick
engineWindow == Get(run.engineInput)

\* the configuration the decision engine works with during the run
engineParameters ==
    parameters(mergeStrategyConfig(convertToCoreStrategyConfig(run.config)))

\* the longest lookback of the indicators: band period, slow EMA period,
\* RSI period + 1, MACD long + signal - 1
longestLookback ==
    Max2(Max2(engineParameters.bollingerPeriod, engineParameters.emaLongPeriod),
         Max2(engineParameters.rsiPeriod + 1,
              engineParameters.macdLongPeriod + engineParameters.macdSignalPeriod - 1))

\* C10: in Backtester.run, whatever the run configuration, the decision engine is
\* never evaluated on a tick whose candle window is shorter than the longest
\* indicator lookback (band period, slow EMA period, RSI period + 1,
\* MACD long + signal - 1), so no buy or sell comes from partially-warmed indicators.
C10_WarmUpCoversLookbacks ==
    engineEvaluated => Len(engineWindow) >= longestLookback

\* the engine was called on a window too short for the MACD and answered buy
C10_BuyFromPartialWindow ==
    /\ engineEvaluated
    /\ Len(engineWindow) < longestLookback
    /\ Get(run.signal).action = "buy"

\* the candle the loop is at after a tick, and whether a tick has been made
ticked == run.phase = "loop" /\ run.i >= 1
currentCandle == run.allCandles[run.i]

C11_WindowIsPast ==
    ticked =>
        /\ IsSome(run.engineCandles) =>
              /\ Len(Get(run.engineCandles)) >= 1
              /\ Len(Get(run.engineCandles)) <= run.i
              /\ \A k \in 1..Len(Get(run.engineCandles)) :
                    Get(run.engineCandles)[k] = run.allCandles[run.i - k + 1]
        /\ \A j \in 1..Len(trades) : trades[j].timestamp <= currentCandle.timestamp
        /\ marketPrices[run.market] = currentCandle.trade_price

\* a tick: the decision and the ledger after it are those of a replay whose file
\* ends at the tick's candle, and a trade of the tick is at that candle's price
C11_TickStep ==
    (run.phase = "loop" /\ run'.phase = "loop" /\ run'.i = run.i + 1) =>
        /\ IsSome(run'.signal) =>
              run'.signal =
                  Some(determineSignalForMarket(
                           updateMarketPrice(Ledger, run.market,
                                             run.allCandles[run.i + 1].trade_price),
                           SubSeq(run.allCandles, 1, run.i + 1), run.market,
                           run.config, run.i).signal)
        /\ Len(trades') > Len(trades) =>
              /\ Len(trades') = Len(trades) + 1
              /\ trades'[Len(trades')].timestamp = run.allCandles[run.i + 1].timestamp
              /\ trades'[Len(trades')].price = run.allCandles[run.i + 1].trade_price

\* C11: at tick i the window handed to the decision engine holds only candles of
\* index <= i, most recent first with candle i in front; the tick's order is
\* applied to the ledger before candle i + 1 is read; no decision, order price or
\* valuation of tick i depends on a candle of index > i.
C11_NoLookAhead == [](C11_WindowIsPast) /\ [][C11_TickStep]_vars

\* the engine was called on a full window, the tick traded, and a candle with
\* another price is still to come
C11_Witness ==
    /\ ticked
    /\ IsSome(run.engineCandles)
    /\ Len(Get(run.engineCandles)) = 3
    /\ run.i < Len(run.allCandles)
    /\ run.allCandles[run.i + 1].trade_price # currentCandle.trade_price
    /\ Len(trades) >= 1
    /\ trades[Len(trades)].timestamp = currentCandle.timestamp

\* a run has ended that had the candle series and the configuration of the run
\* before it
ranTwice ==
    /\ run.phase = "done"
    /\ IsSome(run.previous)
    /\ Get(run.previous).allCandles = run.allCandles
    /\ Get(run.previous).result.strategyConfig = run.result.strategyConfig

\* C12: two executions of Backtester.run on the same candle series and
\* configuration produce identical trade logs, record for record and field for
\* field (identifier included).
C12_RunsAreDeterministic ==
    ranTwice => run.result.trades = Get(run.previous).result.trades

\* a trade without its identifier
withoutUuid(t) == [f \in (DOMAIN t) \ {"uuid"} |-> t[f]]

\* the two logs agree in every field but the identifier
C12_SameUpToIdentifiers ==
    ranTwice =>
        /\ Len(run.result.trades) = Len(Get(run.previous).result.trades)
        /\ \A j \in 1..Len(run.result.trades) :
              withoutUuid(run.result.trades[j])
                  = withoutUuid(Get(run.previous).result.trades[j])

\* two such runs that traded
C12_TwoRunsTraded == ranTwice /\ Len(run.result.trades) >= 1

\* the cap on incremental buys the decision engine works with during the run
maxPyramidingCount ==
    OrDefault(mergeStrategyConfig(convertToCoreStrategyConfig(run.config)).maxPyramidingCount,
              2)

\* C13: with pyramiding enabled, the number of incremental (pyramiding) buys
\* applied to one continuously held position never exceeds maxPyramidingCount.
C13_PyramidingIsCapped ==
    run.phase = "loop" => run.incrementalBuys <= maxPyramidingCount

\* what the decision engine is handed after an executed incremental buy: a position
\* whose incremental-buy count is still absent
C13_CountNeverHandedOn ==
    /\ run.phase = "loop"
    /\ run.incrementalBuys >= 1
    /\ convertToCorePosition(getPosition(Ledger, run.market)) # None
    /\ Get(convertToCorePosition(getPosition(Ledger, run.market))).pyramidingCount = None


\* the order log of the run grows in this step by an order of the given side
orderSubmitted(sd) ==
    /\ run.phase = "loop" /\ run'.phase = "loop"
    /\ Len(run'.executor.executedOrdersLog) = Len(run.executor.executedOrdersLog) + 1
    /\ run'.executor.executedOrdersLog[Len(run'.executor.executedOrdersLog)].side = sd

\* the order value calculateTradeVolume computes from the cash and the trade ratio
\* of the run's configuration, before this step
orderValueByRatio ==
    ratioSpend(currentBalance, OrElse(run.config.maxTradeRatio, Num(1, 4)),
               OrElse(run.config.feeRate, Num(5, 10000)))

C19_BuyStep == orderSubmitted(BID) => RGe(orderValueByRatio, I(minTradeValueKRW))

\* C19: whenever the order value the allocator computes is below the minimum tradable
\* value (5000 KRW) no order is submitted; the size is never raised to the minimum.
C19_NoOrderBelowMinimum == [][C19_BuyStep]_vars

\* the value of the last submitted order: volume times price
lastOrderValue ==
    LET order == run.executor.executedOrdersLog[Len(run.executor.executedOrdersLog)]
    IN  RMul(parseFloat(order.volume), parseFloat(Get(order.price)))


\* In the replay every order calculateTradeVolume sized is accepted by the ledger:
\* the executor has logged as many trades as orders.
C20_ReplayOrdersAccepted ==
    run.phase = "loop"
        => Len(run.executor.executedTradesLog) = Len(run.executor.executedOrdersLog)

\* this step is an evaluated tick: the loop called the decision engine
tickEvaluated ==
    /\ run.phase = "loop" /\ run'.phase = "loop"
    /\ run'.i = run.i + 1
    /\ IsSome(run'.signal)

\* on this tick the signal was a buy or a sell and no trade came of it: the computed
\* size was zero, so no order was submitted, or the ledger refused the order
tickWithoutTrade ==
    /\ tickEvaluated
    /\ Get(run'.signal).action \in {"buy", "sell"}
    /\ Len(run'.executor.executedTradesLog) = Len(run.executor.executedTradesLog)

\* the ledger once the tick's close price is marked, before the signal is acted on
markedLedger == updateMarketPrice(Ledger, run.market, run.allCandles[run.i + 1].trade_price)

C26_TickStep ==
    tickWithoutTrade =>
        /\ currentBalance' = currentBalance
        /\ positions' = markedLedger.positions
        /\ trades' = trades
        /\ run'.holdSignals = run.holdSignals + 1
        /\ run'.buySignals = run.buySignals
        /\ run'.sellSignals = run.sellSignals

\* C26: in Backtester.run a tick whose order the ledger rejects, or whose computed
\* order size is zero, is treated as a hold: cash, positions and the trade log are
\* unchanged, the tick is counted as a hold and not as a buy or a sell, and the run
\* goes on with the next candle.
C26_NoTradeIsHold == [][C26_TickStep]_vars

C26_LedgerStep ==
    tickWithoutTrade =>
        /\ currentBalance' = currentBalance
        /\ positions' = markedLedger.positions
        /\ trades' = trades
        /\ run'.buySignals = run.buySignals
        /\ run'.sellSignals = run.sellSignals

\* the part of C26 that holds: the ledger is left alone, neither a buy nor a sell
\* is counted, and the loop moves to the next candle
C26_NoTradeLeavesLedger == [][C26_LedgerStep]_vars

\* a buy signal came while the cash was under the minimum order value
C26_BuyWithoutCash ==
    /\ run.phase = "loop"
    /\ IsSome(run.signal)
    /\ Get(run.signal).action = "buy"
    /\ RLt(currentBalance, I(minTradeValueKRW))
    /\ run.buySignals + run.sellSignals + run.holdSignals < run.simulatedCandlesCount

\* cash plus the held volume of the market valued at a close price
valueAtClose(cash, holdings, market, close) ==
    RAdd(cash, IF market \in DOMAIN holdings
               THEN RMul(holdings[market].volume, close) ELSE I(0))

\* the peak is the higher of the peak so far and the value, the maximum drawdown
\* the higher of the maximum so far and the fall of the value from that peak
drawdownTracked(value, peakBefore, maxBefore, peakAfter, maxAfter) ==
    /\ peakAfter = RMax(peakBefore, value)
    /\ maxAfter = RMax(maxBefore, RDiv(RSub(peakAfter, value), peakAfter))

\* a candle of the warm-up went by: no signal was asked for
tickSkipped ==
    /\ run.phase = "loop" /\ run'.phase = "loop"
    /\ run'.i = run.i + 1
    /\ run'.signal = None

C29_DrawdownStep ==
    /\ (run.phase # "loop" /\ run'.phase = "loop") =>
           /\ run'.peakBalance = initialBalance'
           /\ run'.maxDrawdown = I(0)
    /\ tickSkipped =>
           /\ run'.peakBalance = run.peakBalance
           /\ run'.maxDrawdown = run.maxDrawdown
    /\ tickEvaluated =>
           /\ marketPrices'[run.market] = run.allCandles[run.i + 1].trade_price
           /\ drawdownTracked(valueAtClose(currentBalance', positions', run.market,
                                           run.allCandles[run.i + 1].trade_price),
                              run.peakBalance, run.maxDrawdown,
                              run'.peakBalance, run'.maxDrawdown)
    /\ (run.phase = "loop" /\ run'.phase = "done") =>
           run'.result.maxDrawdown = run.maxDrawdown

\* C29: at every evaluated tick of Backtester.run the running peak and the
\* drawdown are updated from the ledger's total asset value after the tick's
\* order, marked at the tick's close price; the reported maxDrawdown is the
\* maximum over the evaluated ticks of (peakSoFar - valueAfterTrade) / peakSoFar.
C29_DrawdownAfterTrade == [][C29_DrawdownStep]_vars

\* reachable: a run that traded ended with a drawdown above 0
C29_Witness ==
    /\ run.phase = "done"
    /\ Len(run.result.trades) > 0
    /\ RGt(run.result.maxDrawdown, I(0))
    /\ DOMAIN positions # {}

\* the same markets are held, each with the same volume and average entry price
sameHoldings(before, after) ==
    /\ DOMAIN after = DOMAIN before
    /\ \A m \in DOMAIN before :
          /\ after[m].volume = before[m].volume
          /\ after[m].averageEntryPrice = before[m].averageEntryPrice

\* run() was called: the step from a constructed, finished or failed Backtester
runStarted == run.phase # "loop" /\ run'.runs = run.runs + 1

\* marking a price on the ledger leaves cash, holdings and trade log
markKeeps(L, marked) ==
    /\ marked.currentBalance = L.currentBalance
    /\ marked.trades = L.trades
    /\ sameHoldings(L.positions, marked.positions)

C30_LedgerFrameStep ==
    /\ runStarted =>
           /\ currentBalance' = initialBalance'
           /\ positions' = EmptyMap
           /\ trades' = << >>
           /\ marketPrices' = EmptyMap
    /\ ~runStarted =>
           /\ trades' = trades =>
                  /\ currentBalance' = currentBalance
                  /\ sameHoldings(positions, positions')
           /\ trades' # trades =>
                  /\ Len(trades') = Len(trades) + 1
                  /\ SubSeq(trades', 1, Len(trades)) = trades
    /\ run.phase = "loop" =>
           \A price \in SignalPrices :
               markKeeps(Ledger, updateMarketPrice(Ledger, run.market, price))

\* C30: Backtester.run resets the ledger before replaying, so every run starts
\* with cash equal to the initial balance and with no position, trade or
\* last-seen price, whatever an earlier run left; between resets, cash, position
\* volumes, average entry prices and the trade log change only when a trade is
\* recorded, and updateMarketPrice changes none of them.
C30_ResetThenOnlyTrades == [][C30_LedgerFrameStep]_vars

\* reachable: a second run is at its first tick after a run that traded and
\* ended holding a position
C30_Witness ==
    /\ run.phase = "loop"
    /\ run.runs = 2
    /\ run.i = 0
    /\ IsSome(run.previous)
    /\ Len(Get(run.previous).result.trades) > 0
    /\ RLt(Get(run.previous).result.finalBalance, initialBalance)
    /\ trades = << >>
    /\ currentBalance = initialBalance

\* the three counters of a result
countedSignals(result) == result.buySignals + result.sellSignals + result.holdSignals

\* C35: in every RunResult buySignals + sellSignals + holdSignals equals
\* simulatedCandles: every tick evaluated after the warm-up increments exactly
\* one of the three counters, whatever the decision and the computed size.
C35_CountersSumToSimulated ==
    run.phase = "done" => countedSignals(run.result) = run.result.simulatedCandles

\* what holds: no evaluated tick is counted twice
C35_CountedAtMostOnce ==
    run.phase = "done" => countedSignals(run.result) <= run.result.simulatedCandles

\* reachable: a finished run with an evaluated tick that no counter holds
C35_TickCountedNowhere ==
    /\ run.phase = "done"
    /\ countedSignals(run.result) < run.result.simulatedCandles
    /\ run.result.buySignals > 0

-----------------------------------------------------------------------------
(* The allocator (RiskManager) applied to drawn signals (AllocatorSpec):   *)
(* every reason and score a StrategyResult can carry, among them the       *)
(* indicator-driven sell, which has neither the stop-loss nor the          *)
(* take-profit marker in its reason.                                       *)

AllocatorScores == {I(0), I(30), I(50), I(60), I(65), I(80), I(90), I(100)}

AllocatorSignals ==
    {StrategyResult("buy", "KRW-BTC", reason, Some(I(100)), score) :
        reason \in {"newEntry", "pyramiding"}, score \in AllocatorScores}
    \cup
    {StrategyResult("sell", "KRW-BTC", reason, Some(I(100)), score) :
        reason \in {"stopLoss", "takeProfit", "sellSignal"}, score \in AllocatorScores}

AllocatorPositions ==
    {None,
     Some([market |-> "KRW-BTC", entryPrice |-> I(100), volume |-> I(1),
           pyramidingCount |-> None]),
     Some([market |-> "KRW-BTC", entryPrice |-> I(100), volume |-> I(200),
           pyramidingCount |-> Some(1)])}

AllocatorInit ==
    /\ setLedgerInit
    /\ lastCall = NoCall
    /\ liveIdle
    /\ \E signal \in AllocatorSignals, pos \in AllocatorPositions :
         /\ sigIn = Some([market |-> signal.market, currentPosition |-> pos])
         /\ sigOut = Some(signal)
    /\ run = idle

\* the replay's ledger at the time of the sizing: the cash, and the held position
sizingLedger(availableBalance, rate, market, position) ==
    [newLedger(availableBalance, rate) EXCEPT
        !.positions = IF IsSome(position)
                      THEN MapSet(EmptyMap, market,
                                  [market |-> market, volume |-> Get(position).volume,
                                   averageEntryPrice |-> Get(position).entryPrice])
                      ELSE EmptyMap]

\* Backtester.run (backtester.ts) lines 222-232 and 245-257: the signal carries no
\* volume, so run sizes the order with calculateTradeVolume
CalculateTradeVolume ==
    /\ IsSome(sigOut)
    /\ lastCall = NoCall
    /\ Get(sigOut).action \in {"buy", "sell"}
    /\ IsSome(Get(sigOut).price)
    /\ Get(sigOut).action = "sell" => holdsPosition(Get(sigIn).currentPosition)
    /\ \E availableBalance \in KrwBalances :
         LET config == spread(DEFAULT_STRATEGY_CONFIG, RunBaseConfig)
         IN  lastCall' = [op |-> "calculateTradeVolume", order |-> None,
                          candle |-> None, krwBalance |-> availableBalance,
                          ret |-> Some(calculateTradeVolume(
                                           sizingLedger(availableBalance,
                                                        Get(config.feeRate),
                                                        Get(sigOut).market,
                                                        Get(sigIn).currentPosition),
                                           Get(sigOut).market, Get(Get(sigOut).price),
                                           Get(sigOut).action, config))]
    /\ UNCHANGED <<ledgerVars, sigIn, sigOut, run, liveVars>>

AllocatorNext ==
    \/ DetermineInvestmentAmountForBuy
    \/ DetermineOrderVolumeForSell
    \/ CalculateTradeVolume

AllocatorSpec == AllocatorInit /\ [][AllocatorNext]_vars

-----------------------------------------------------------------------------
(* Claims about the allocator on drawn signals, checked under AllocatorSpec *)

\* an indicator-driven sell has been sized
indicatorSellSized ==
    /\ sellSized
    /\ ~isStopLossReason(out.reason)
    /\ ~isTakeProfitReason(out.reason)

\* the share of the held volume that the allocator returned
soldFraction == RDiv(Get(lastCall.ret), Get(inPosition).volume)

\* 60 % at the sell threshold, 100 % at score 100, linear in between
linearSellFraction(score, threshold) ==
    RAdd(Num(6, 10),
         RMul(Num(4, 10), RDiv(RSub(score, threshold), RSub(I(100), threshold))))

\* the value of the volume at the signal's price is under the minimum order amount
belowMinimumTrade(volume, price) == RLt(RMul(volume, price), I(minOrderAmountKRW))

\* C22: for an indicator-driven sell with score s the allocator sells the whole
\* position whenever s >= 80; for s below 80 it sells a fraction that rises linearly
\* from 60 % at the sell-threshold score to 100 % at s = 100; and a fraction below the
\* minimum tradable size or value falls back to the whole position.
C22_IndicatorSellFraction ==
    indicatorSellSized =>
        LET volume == Get(inPosition).volume
            fraction == linearSellFraction(out.score, sellScoreThresholdShortTerm)
        IN  IF RGe(out.score, I(80)) THEN lastCall.ret = Some(volume)
            ELSE IF RGe(out.score, sellScoreThresholdShortTerm)
            THEN IF belowMinimumTrade(RMul(volume, fraction), Get(out.price))
                 THEN lastCall.ret = Some(volume)
                 ELSE soldFraction = fraction
            ELSE TRUE

\* what the allocator does with an indicator-driven sell: 60 % at score 60, one
\* point more per point of score, 30 % under 60, and no fallback
C22_FractionFromSixty ==
    indicatorSellSized =>
        soldFraction = (IF RGe(out.score, I(60))
                        THEN RAdd(Num(6, 10), RDiv(RSub(out.score, I(60)), I(100)))
                        ELSE Num(3, 10))

\* an indicator-driven sell of score 80 on a holding of 200 was sized
C22_SizedAtEighty ==
    /\ indicatorSellSized
    /\ out.score = I(80)
    /\ Get(inPosition).volume = I(200)

\* a new (non-incremental) buy has been handed to the live allocator
newBuySized ==
    /\ returned
    /\ lastCall.op = "determineInvestmentAmountForBuy"
    /\ out.reason = "newEntry"

\* a new buy has been sized by the replay, which found enough cash for an order
newBuySizedInReplay ==
    /\ returned
    /\ lastCall.op = "calculateTradeVolume"
    /\ out.action = "buy"
    /\ out.reason = "newEntry"
    /\ RGt(Get(lastCall.ret), I(0))

\* the amount the replay's order is worth: volume x price
replayAmount == RMul(Get(lastCall.ret), Get(out.price))

\* max(minTradeValue, availableCash x maxRatio)
maxTradeValue(krwBalance) ==
    RMax(I(minOrderAmountKRW), RMul(krwBalance, Num(maxTradeBalancePercentage, 100)))

\* the linear map of the score onto [minTradeValue, maxTradeValue]
interpolatedAmount(score, krwBalance) ==
    RAdd(I(minOrderAmountKRW),
         RMul(RSub(maxTradeValue(krwBalance), I(minOrderAmountKRW)),
              RDiv(RMin(RMax(score, I(0)), I(100)), I(100))))

\* the returned amount is the given amount once the cash clamp and the minimum test
\* are applied
clampedTo(amount, krwBalance) ==
    LET cut == RMin(amount, krwBalance)
    IN  lastCall.ret = (IF RLt(cut, I(minOrderAmountKRW)) THEN None ELSE Some(cut))

\* the amount is non-decreasing in the score: no smaller score gives more
nonDecreasingUpTo(score, krwBalance) ==
    \A s \in AllocatorScores :
        RLe(s, score) =>
            RLe(newPositionInvestment(s, I(minOrderAmountKRW),
                                      maxInvestmentAmount(krwBalance)),
                newPositionInvestment(score, I(minOrderAmountKRW),
                                      maxInvestmentAmount(krwBalance)))

\* the claim on the live allocator (RiskManager), which keeps it
C23_RiskManagerInterpolates ==
    newBuySized =>
        /\ clampedTo(interpolatedAmount(out.score, lastCall.krwBalance),
                     lastCall.krwBalance)
        /\ nonDecreasingUpTo(out.score, lastCall.krwBalance)

\* C23: for a new (non-incremental) buy with score s the allocator's amount before
\* the cash clamp is minTradeValue for s <= 0, maxTradeValue for s >= 100 and
\* minTradeValue + (maxTradeValue - minTradeValue) x s / 100 otherwise, where
\* maxTradeValue = max(minTradeValue, availableCash x maxRatio); the amount is
\* non-decreasing in s.  Stated on the live allocator and on the replay's sizing:
\* an order is never worth more than the interpolated amount.
C23_NewBuyInterpolates ==
    /\ C23_RiskManagerInterpolates
    /\ newBuySizedInReplay =>
           RLe(replayAmount, interpolatedAmount(out.score, lastCall.krwBalance))

\* a new buy of score 50 with a cash balance of 40000 was given 7500, strictly
\* between the minimum 5000 and the maximum 10000
C23_Witness ==
    /\ newBuySized
    /\ out.score = I(50)
    /\ lastCall.krwBalance = I(40000)
    /\ lastCall.ret = Some(I(7500))

-----------------------------------------------------------------------------
(* ScoreCalculator applied to drawn indicator values (ScoreSpec)           *)

ScorePrices == {I(100), I(110)}

\* a band around 100, a band of no width, and the zeroed band calculateBollingerBands
\* returns on too few prices
ScoreBands ==
    {[upper |-> I(105), middle |-> I(100), lower |-> I(95), bandwidth |-> Num(1, 10)],
     [upper |-> I(100), middle |-> I(100), lower |-> I(100), bandwidth |-> I(0)],
     [upper |-> I(0), middle |-> I(0), lower |-> I(0), bandwidth |-> I(0)]}

\* short, mid and long EMA: rising, falling, flat
ScoreEmas == {<<I(110), I(100), I(90)>>, <<I(90), I(100), I(110)>>,
              <<I(100), I(100), I(100)>>}

ScoreRsis == {I(20), I(50), I(80)}

\* current and average volume; no trade at all gives 0 and 0
ScoreVolumes == {<<I(3), I(1)>>, <<I(1), I(1)>>, <<I(0), I(1)>>, <<I(0), I(0)>>}

ScoreMacds ==
    {None,
     Some([macdLine |-> I(1), signalLine |-> Num(1, 2), histogram |-> Num(1, 2)]),
     Some([macdLine |-> I(-1), signalLine |-> Num(-1, 2), histogram |-> Num(-1, 2)])}

ScoreProfitRates == {None, Some(I(5))}

\* no weights, the configured defaults, a weight of 0 on the trend and oscillator
\* sub-scores, and a weight of 100 on every sub-score
ScoreWeights ==
    {None,
     defaultStrategyConfig.weights,
     Some([NoWeights EXCEPT !.emaGoldenCross = Some(I(0)),
                            !.rsiOversold = Some(I(0)),
                            !.rsiOverboughtSell = Some(I(0)),
                            !.emaDeadCrossSell = Some(I(0))]),
     Some([k \in DOMAIN NoWeights |-> Some(I(100))])}

ScoreInit ==
    /\ setLedgerInit
    /\ lastCall = NoCall
    /\ liveIdle
    /\ \E currentPrice \in ScorePrices, bollingerBands \in ScoreBands, ema \in ScoreEmas,
          rsi \in ScoreRsis, vol \in ScoreVolumes, macdResult \in ScoreMacds,
          currentProfitRate \in ScoreProfitRates, weights \in ScoreWeights :
         sigIn = Some([currentPrice |-> currentPrice, bollingerBands |-> bollingerBands,
                       emaShort |-> ema[1], emaMid |-> ema[2], emaLong |-> ema[3],
                       rsi |-> rsi, currentVolume |-> vol[1], avgVolume |-> vol[2],
                       strategyCfg |-> [EmptyConfig EXCEPT !.weights = weights],
                       currentProfitRate |-> currentProfitRate,
                       macdResult |-> macdResult])
    /\ sigOut = None
    /\ run = idle

CalculateBuyScore ==
    /\ IsSome(sigIn)
    /\ lastCall = NoCall
    /\ LET in == Get(sigIn)
       IN  lastCall' = [op |-> "calculateBuyScore", order |-> None, candle |-> None,
                        ret |-> Some(calculateBuyScore(
                                         in.currentPrice, in.bollingerBands, in.emaShort,
                                         in.emaMid, in.emaLong, in.rsi, in.currentVolume,
                                         in.avgVolume, in.strategyCfg, in.macdResult))]
    /\ UNCHANGED <<ledgerVars, sigIn, sigOut, run, liveVars>>

CalculateSellPressureScore ==
    /\ IsSome(sigIn)
    /\ lastCall = NoCall
    /\ LET in == Get(sigIn)
       IN  lastCall' = [op |-> "calculateSellPressureScore", order |-> None,
                        candle |-> None,
                        ret |-> Some(calculateSellPressureScore(
                                         in.currentPrice, in.bollingerBands, in.emaShort,
                                         in.emaMid, in.rsi, in.strategyCfg,
                                         in.currentProfitRate, in.macdResult))]
    /\ UNCHANGED <<ledgerVars, sigIn, sigOut, run, liveVars>>

ScoreNext == CalculateBuyScore \/ CalculateSellPressureScore

ScoreSpec == ScoreInit /\ [][ScoreNext]_vars

-----------------------------------------------------------------------------
(* Claims about the score calculator, checked under ScoreSpec              *)

buyScored == lastCall.op = "calculateBuyScore"
sellScored == lastCall.op = "calculateSellPressureScore"
scored == buyScored \/ sellScored
scoreOut == Get(lastCall.ret)

\* an integer from 0 to 100
inScoreRange(x) == x.d = 1 /\ 0 <= x.n /\ x.n <= 100

\* C24: for all indicator inputs with non-negative prices and volumes (zero current
\* or average volume, a band of no width, a zeroed band and an unavailable MACD
\* among them) and every weight configuration, the score calculateBuyScore and
\* calculateSellPressureScore return is an integer in [0,100].
C24_ScoreInRange == scored => inScoreRange(scoreOut.score)

\* the part of C24 that holds: the score is in range unless it is NaN, and the
\* sell-pressure score always is
C24_InRangeOrNaN ==
    /\ buyScored => (inScoreRange(scoreOut.score) \/ IsNaN(scoreOut.score))
    /\ sellScored => inScoreRange(scoreOut.score)

\* the buy score is NaN only when the current and the average volume are both 0
C24_NaNOnlyWithoutVolume ==
    (buyScored /\ IsNaN(scoreOut.score))
        => (Get(sigIn).currentVolume = I(0) /\ Get(sigIn).avgVolume = I(0))

\* one term of the claimed sum: the configured weight whenever one is configured, 0
\* included, and the default only when it is unset
claimedTerm(score, weight, default) ==
    RDiv(RMul(score, OrDefault(weight, default)), I(100))

roundedClamp(total) == RRound(RMax(I(0), RMin(I(100), total)))

claimedBuyScore(sub, weights) ==
    roundedClamp(
        RAdd(RAdd(RAdd(claimedTerm(sub.emaGoldenCross, weights.emaGoldenCross, I(20)),
                       claimedTerm(sub.bollingerBreakout, weights.bollingerBreakout, I(15))),
                  RAdd(claimedTerm(sub.volumeSpike, weights.volumeSpike, I(15)),
                       claimedTerm(sub.rsiCondition, weights.rsiOversold, I(20)))),
             RAdd(claimedTerm(sub.macdCondition, weights.buyMacdGoldenCross, I(20)),
                  claimedTerm(sub.synergyEffect, weights.buySynergy, I(10)))))

claimedSellScore(sub, weights) ==
    roundedClamp(
        RAdd(RAdd(RAdd(claimedTerm(sub.rsiOverbought, weights.rsiOverboughtSell, I(25)),
                       claimedTerm(sub.emaDeadCross, weights.emaDeadCrossSell, I(20))),
                  RAdd(claimedTerm(sub.bollingerBand, weights.bollingerBreakout, I(15)),
                       claimedTerm(sub.macdCondition, weights.sellMacdDeadCross, I(20)))),
             RAdd(claimedTerm(sub.profitTarget, weights.profitTargetWeight, I(10)),
                  claimedTerm(sub.synergyEffect, weights.sellSynergyRsiEma, I(10)))))

scoreWeights == OrDefault(Get(sigIn).strategyCfg.weights, NoWeights)

\* C25: the final buy or sell-pressure score is round(clamp(sum over the sub-scores
\* of subScore x weight / 100)) with the configured weight whenever one is
\* configured, a configured 0 included (which removes that sub-score's
\* contribution), and the documented default only when the weight is unset.
C25_ConfiguredWeightsApply ==
    /\ buyScored => scoreOut.score = claimedBuyScore(scoreOut.indicatorScores, scoreWeights)
    /\ sellScored => scoreOut.score = claimedSellScore(scoreOut.indicatorScores, scoreWeights)

\* the part of C25 that holds: the formula gives the score whenever no configured
\* weight is 0
C25_NonZeroWeightsApply ==
    (\A k \in DOMAIN scoreWeights : scoreWeights[k] # Some(I(0)))
        => C25_ConfiguredWeightsApply

\* a weight of 0 was configured on a sub-score that is not 0
C25_ZeroWeightOnScore ==
    /\ buyScored
    /\ scoreWeights.emaGoldenCross = Some(I(0))
    /\ RGt(scoreOut.indicatorScores.emaGoldenCross, I(0))


\* ---------------------------------------------------------------------------
\* The replay when the evaluation of a tick throws (FaultSpec)
\* ---------------------------------------------------------------------------

\* backtester.ts lines 599-611: the catch of determineSignalForMarket, which
\* answers any exception raised in its try block (lines 524-598)
strategyExecutionError(market) ==
    [signal |-> [action |-> "hold", market |-> market,
                 reason |-> "strategyExecutionError", price |-> None, score |-> None],
     engineInput |-> None, engineCandles |-> None]

\* one iteration of the loop, lines 200-301, in which the try block of
\* determineSignalForMarket throws
RunTickFault ==
    /\ run.phase = "loop"
    /\ run.i < Len(run.allCandles)
    /\ run.i >= minCandlesForIndicators(run.config) - 1
    /\ \E marked \in {updateMarketPrice(Ledger, run.market,
                                        run.allCandles[run.i + 1].trade_price)} :
       \E decided \in {strategyExecutionError(run.market)} :
       \E acted \in {actOnSignal(marked, run, decided.signal,
                                 run.allCandles[run.i + 1], "u1")} :
       \E dd \in {drawdownAfter(acted.ledger, run.peakBalance, run.maxDrawdown)} :
           /\ setLedger(acted.ledger)
           /\ run' = [run EXCEPT
                         !.i = run.i + 1,
                         !.simulatedCandlesCount = run.simulatedCandlesCount + 1,
                         !.signal = Some(decided.signal),
                         !.engineInput = decided.engineInput,
                         !.engineCandles = decided.engineCandles,
                         !.incrementalBuys =
                             incrementalBuysAfter(run.incrementalBuys, marked,
                                                  acted.ledger, decided.signal,
                                                  run.market),
                         !.executor = acted.executor,
                         !.buySignals = acted.buySignals,
                         !.sellSignals = acted.sellSignals,
                         !.holdSignals = acted.holdSignals,
                         !.peakBalance = dd.peakBalance,
                         !.maxDrawdown = dd.maxDrawdown]
    /\ UNCHANGED <<lastCall, sigIn, sigOut, liveVars>>

FaultNext == RunStart \/ RunTick \/ RunTickFault \/ RunFinish

FaultSpec == RunInit /\ [][FaultNext]_vars

\* ---------------------------------------------------------------------------
\* Claims about faults, checked under FaultSpec
\* ---------------------------------------------------------------------------

\* the evaluation of the last tick threw and the replay is still going
faultBecameHold ==
    /\ run.phase = "loop"
    /\ IsSome(run.signal)
    /\ Get(run.signal).reason = "strategyExecutionError"

\* run() was called and no candle was loaded
loadFailed == run.phase = "failed"

\* C27: a fault raised while loading the data or while evaluating a tick ends
\* the run with an error; it never becomes a hold decision after which the
\* replay continues.
C27_FaultEndsRun ==
    /\ ~faultBecameHold
    /\ (run.phase = "loop" => Len(run.allCandles) > 0)

\* what holds: a load that yields no candle ends the run before any tick
C27_LoadFaultEndsRun ==
    /\ (run.phase = "loop" => Len(run.allCandles) > 0)
    /\ (loadFailed => Ledger = reset(Ledger))

\* reachable: a tick whose evaluation threw was counted as a hold and the loop
\* went on to the next candle
C27_FaultCountedAsHold ==
    /\ faultBecameHold
    /\ run.holdSignals > 0
    /\ run.i < Len(run.allCandles)


-----------------------------------------------------------------------------
(* IndicatorCalculator.calculateRSI applied to drawn price series (RsiSpec) *)

RsiLengths == 0..5
RsiPeriods == {2, 3, 4}
DefaultRsiPeriod == 14

\* 15 prices, newest first, rising by 1 at every step since the oldest
RisingFifteen == [i \in 1..(DefaultRsiPeriod + 1) |-> I(115 - i)]

\* the same series with the newest price back on the one before: one change of 0
RisingThenFlat == [i \in 1..(DefaultRsiPeriod + 1) |-> IF i = 1 THEN I(113) ELSE I(115 - i)]

\* the same series with the newest price fallen by 2: one loss among 14 changes
RisingThenFallen == [i \in 1..(DefaultRsiPeriod + 1) |-> IF i = 1 THEN I(111) ELSE I(115 - i)]

\* 15 prices falling by 1 at every step
FallingFifteen == [i \in 1..(DefaultRsiPeriod + 1) |-> I(100 + i)]

RsiInputs ==
    {[prices |-> c, period |-> P] :
        c \in UNION {[1..n -> SignalPrices] : n \in RsiLengths}, P \in RsiPeriods}
    \cup {[prices |-> c, period |-> DefaultRsiPeriod] :
             c \in {RisingFifteen, RisingThenFlat, RisingThenFallen, FallingFifteen,
                    SubSeq(RisingFifteen, 1, DefaultRsiPeriod)}}

RsiInit ==
    /\ setLedgerInit
    /\ lastCall = NoCall
    /\ liveIdle
    /\ \E in \in RsiInputs : sigIn = Some(in)
    /\ sigOut = None
    /\ run = idle

CalculateRSI ==
    /\ IsSome(sigIn)
    /\ lastCall = NoCall
    /\ lastCall' = [op |-> "calculateRSI", order |-> None, candle |-> None,
                    ret |-> Some(calculateRSI(Get(sigIn).prices, Get(sigIn).period))]
    /\ UNCHANGED <<ledgerVars, sigIn, sigOut, run, liveVars>>

RsiNext == CalculateRSI

RsiSpec == RsiInit /\ [][RsiNext]_vars

-----------------------------------------------------------------------------
(* Claims about calculateRSI, checked under RsiSpec                        *)

rsiReturned == lastCall.op = "calculateRSI"
rsiPrices == Get(sigIn).prices
rsiPeriod == Get(sigIn).period
rsiValue == Get(lastCall.ret)

\* among the period most recent changes none is a fall
noRecentLoss(prices, period) ==
    \A i \in 1..period : RGe(prices[i], prices[i + 1])

\* C33: calculateRSI with period P returns 50 when fewer than P + 1 prices are
\* given, 100 whenever the P most recent changes contain no loss, and a value in
\* [0, 100) in every other case.
C33_RsiValues ==
    rsiReturned =>
        IF Len(rsiPrices) < rsiPeriod + 1 THEN rsiValue = I(50)
        ELSE IF noRecentLoss(rsiPrices, rsiPeriod) THEN rsiValue = I(100)
        ELSE RGe(rsiValue, I(0)) /\ RLt(rsiValue, I(100))

\* reachable: the rising series of 15 prices with period 14 gave 100
C33_Witness ==
    /\ rsiReturned
    /\ rsiPrices = RisingFifteen
    /\ rsiPeriod = DefaultRsiPeriod
    /\ rsiValue = I(100)


-----------------------------------------------------------------------------
(* The ledger under drawn fee rates (FeeSpec)                              *)

\* no fee, the fee of Spec, a fee equal to the traded amount, a fee twice it
WideFeeRates == {I(0), Num(1, 4), I(1), I(2)}

FeeInit ==
    /\ \E b \in LedgerInitialBalances, r \in WideFeeRates :
         LET L == newLedger(b, r)
         IN  /\ initialBalance = L.initialBalance
             /\ currentBalance = L.currentBalance
             /\ feeRate = L.feeRate
             /\ positions = L.positions
             /\ trades = L.trades
             /\ marketPrices = L.marketPrices
    /\ lastCall = NoCall
    /\ liveIdle
    /\ sigIn = None
    /\ sigOut = None
    /\ run = idle

FeeNext == RecordTrade \/ UpdateMarketPrice \/ Reset

FeeSpec == FeeInit /\ [][FeeNext]_vars

-----------------------------------------------------------------------------
(* Claims about the cash, checked under FeeSpec                            *)

\* C34 as stated: from a reset ledger with initial balance >= 0 and fee rate
\* >= 0, the cash is >= 0 after every sequence of recordTrade calls.
C34_Original ==
    (RGe(initialBalance, I(0)) /\ RGe(feeRate, I(0))) => RGe(currentBalance, I(0))

\* C34: from a reset ledger with initial balance >= 0 and a fee rate between 0
\* and 1, the cash is >= 0 after every sequence of recordTrade calls, accepted
\* or rejected.
C34_CashNeverNegative ==
    (RGe(initialBalance, I(0)) /\ RGe(feeRate, I(0)) /\ RLe(feeRate, I(1)))
        => RGe(currentBalance, I(0))

\* reachable: with a fee equal to the amount, a buy and a sell were accepted and
\* a later order was refused
C34_Witness ==
    /\ feeRate = I(1)
    /\ Len(trades) = 2
    /\ trades[1].side = BID
    /\ trades[2].side = ASK
    /\ lastCall.op = "recordTrade"
    /\ lastCall.ret = None
    /\ RGe(currentBalance, I(0))


-----------------------------------------------------------------------------
(* generateSignal on drawn partial configurations (ConfigSpec)             *)

\* weights objects: none, one key, one key set to 0, every key
ConfigWeights ==
    {None,
     Some([NoWeights EXCEPT !.volumeSpike = Some(I(50))]),
     Some([NoWeights EXCEPT !.emaGoldenCross = Some(I(0))]),
     Some([k \in DOMAIN NoWeights |-> Some(I(10))])}

\* RSI conditions of the incremental buy: none, one bound, the other bound
ConfigRsiConditions ==
    {None,
     Some([NoRsiCondition EXCEPT !.above = Some(I(20))]),
     Some([NoRsiCondition EXCEPT !.below = Some(I(60))])}

ConfigOversoldThresholds == {None, Some(I(40)), Some(I(0))}

\* partial configurations over the short lookbacks
ConfigInputs ==
    {[ShortPeriods EXCEPT !.weights = w, !.pyramidingRsiCondition = c,
                          !.rsiOversoldThreshold = t, !.allowPyramiding = a] :
        w \in ConfigWeights, c \in ConfigRsiConditions,
        t \in ConfigOversoldThresholds, a \in {None, Some(TRUE)}}

ConfigCloses == [1..4 -> SignalPrices]

ConfigInit ==
    /\ setLedgerInit
    /\ lastCall = NoCall
    /\ liveIdle
    /\ \E c \in ConfigCloses, v \in SignalVolumes, cfg \in ConfigInputs :
         sigIn = Some([market |-> "KRW-BTC", closePrices |-> c, volumes |-> v,
                       currentPosition |-> None, strategyCfgInput |-> cfg])
    /\ sigOut = None
    /\ run = idle

ConfigNext == GenerateSignal

ConfigSpec == ConfigInit /\ [][ConfigNext]_vars

-----------------------------------------------------------------------------
(* Claims about the configuration, checked under ConfigSpec                *)

\* the value the claim gives a key: the supplied one when one is supplied, the
\* default otherwise
resolvedKey(supplied, default) == IF IsSome(supplied) THEN supplied ELSE default

resolvedObject(supplied, default, empty) ==
    [k \in DOMAIN empty |->
        resolvedKey(OrDefault(supplied, empty)[k], OrDefault(default, empty)[k])]

\* the merged configuration holds, key by key, the supplied value or the default
mergedPerKey(strategyCfgInput, merged) ==
    /\ \A k \in DOMAIN EmptyConfig \ {"weights", "pyramidingRsiCondition"} :
          merged[k] = resolvedKey(strategyCfgInput[k], defaultStrategyConfig[k])
    /\ Get(merged.weights)
         = resolvedObject(strategyCfgInput.weights, defaultStrategyConfig.weights,
                          NoWeights)
    /\ Get(merged.pyramidingRsiCondition)
         = resolvedObject(strategyCfgInput.pyramidingRsiCondition,
                          defaultStrategyConfig.pyramidingRsiCondition, NoRsiCondition)

\* the buy score with every configured value taken as configured, 0 included
resolvedScoreOf(price, ind, cfg, ema, bb, vol, rsiS, macd) ==
    claimedBuyScore([emaGoldenCross |-> ema, bollingerBreakout |-> bb,
                     volumeSpike |-> vol, rsiCondition |-> rsiS,
                     macdCondition |-> macd,
                     synergyEffect |-> synergyScore(ema, bb, vol, rsiS, macd, price,
                                                    ind.bollingerBands.lower)],
                    Get(cfg.weights))

resolvedScore(price, ind, cfg) ==
    resolvedScoreOf(price, ind, cfg,
                    emaScore(ind.emaShort, ind.emaMid, ind.emaLong),
                    bbScore(price, ind.bollingerBands),
                    volumeScore(ind.currentVolume, ind.avgVolume, cfg),
                    rsiScoreOf(ind.rsi, OrDefault(cfg.rsiOversoldThreshold, I(30)),
                               OrDefault(cfg.rsiOverboughtThreshold, I(70))),
                    macdScore(ind.macdResult))

\* generateSignal scored a new entry
entryScored == returned /\ out.reason \in {"newEntry", "wait"}

\* C32: for every partial StrategyConfig passed to generateSignal, each
\* top-level field and each key of weights and pyramidingRsiCondition resolves
\* to the supplied value when one is supplied and to its default otherwise;
\* supplying only some weights, or one bound of the RSI condition, does not
\* discard the defaults of the other keys.
C32_SuppliedOrDefault ==
    /\ returned => mergedPerKey(Get(sigIn).strategyCfgInput, inConfig)
    /\ entryScored =>
           out = entryBranch(Get(sigIn).market, inCloses[1],
                             resolvedScore(inCloses[1], inIndicators, inConfig),
                             parameters(inConfig).buyScoreThresholdShortTerm)

\* what holds: the merge is key by key, and the score follows the resolved
\* values whenever no supplied value is 0
C32_MergedPerKey ==
    /\ returned => mergedPerKey(Get(sigIn).strategyCfgInput, inConfig)
    /\ (/\ entryScored
        /\ Get(sigIn).strategyCfgInput.rsiOversoldThreshold # Some(I(0))
        /\ \A k \in DOMAIN NoWeights : Get(inConfig.weights)[k] # Some(I(0)))
       => out = entryBranch(Get(sigIn).market, inCloses[1],
                            resolvedScore(inCloses[1], inIndicators, inConfig),
                            parameters(inConfig).buyScoreThresholdShortTerm)

\* reachable: one weight was supplied, the others kept their defaults and the
\* entry was scored
C32_PartialWeightsMerged ==
    /\ entryScored
    /\ Get(sigIn).strategyCfgInput.weights
         = Some([NoWeights EXCEPT !.volumeSpike = Some(I(50))])
    /\ Get(inConfig.weights).volumeSpike = Some(I(50))
    /\ Get(inConfig.weights).emaGoldenCross = Some(I(30))
    /\ RGt(out.score, I(0))

-----------------------------------------------------------------------------
(* TradingBot (part_002): the live trading cycle under its interval timer  *)
(* (BotSpec, BotFairSpec)                                                  *)
(*                                                                         *)
(* The server runs on one thread: the code between two awaits is one step. *)
(* A cycle is an invocation of runTradingCycle; its pc names the await it  *)
(* is suspended at.  What an awaited call does (settle with a value or     *)
(* throw) is drawn by the step that resumes the cycle.                     *)

targetMarkets == <<"KRW-BTC", "KRW-ETH">>

MaxCycles == 2

BotApiBalances == {I(40000), I(6000)}

\* what determineSignalForMarket can hand back; a stop-loss sell is sized to the
\* whole position
botSignals(market) ==
    {StrategyResult("buy", market, "newEntry", Some(I(100)), I(100)),
     StrategyResult("sell", market, "stopLoss", Some(I(100)), I(100)),
     StrategyResult("hold", market, "hold", Some(I(100)), I(0))}

\* part_002 lines 87 and 99: if (!this.isRunningCycle)
cycleMayStart_Unguarded(isRunningCycle) == TRUE

cycleMayStart(isRunningCycle) == ~isRunningCycle

\* part_003 lines 165-183: the body is one try/catch that only logs; thrown tells
\* whether the call rejects
syncKrwBalanceFromAPI_Rethrows(krwBalance, accounts) ==
    IF IsSome(accounts)
    THEN [krwBalance |-> Get(accounts), thrown |-> FALSE]
    ELSE [krwBalance |-> krwBalance, thrown |-> TRUE]

syncKrwBalanceFromAPI(krwBalance, accounts) ==
    IF IsSome(accounts)
    THEN [krwBalance |-> Get(accounts), thrown |-> FALSE]
    ELSE [krwBalance |-> krwBalance, thrown |-> FALSE]

\* part_003 lines 82-113
updatePositionAfterBuy(b, market, price, volume, usedKrw) ==
    [b EXCEPT
        !.positions =
            IF MapHas(b.positions, market)
            THEN LET existingPosition == b.positions[market]
                     totalVolume == RAdd(existingPosition.volume, volume)
                 IN  MapSet(b.positions, market,
                            [existingPosition EXCEPT
                                !.entryPrice =
                                    RDiv(RAdd(RMul(existingPosition.entryPrice,
                                                   existingPosition.volume),
                                              RMul(price, volume)),
                                         totalVolume),
                                !.volume = totalVolume])
            ELSE MapSet(b.positions, market,
                        [market |-> market, entryPrice |-> price, volume |-> volume,
                         pyramidingCount |-> None]),
        !.krwBalance = RSub(b.krwBalance, usedKrw)]

\* part_003 lines 117-152
updatePositionAfterSell(b, market, volume, gainedKrw) ==
    [b EXCEPT
        !.positions =
            IF MapHas(b.positions, market)
            THEN IF RGt(b.positions[market].volume, volume)
                 THEN MapSet(b.positions, market,
                             [b.positions[market] EXCEPT
                                 !.volume = RSub(b.positions[market].volume, volume)])
                 ELSE MapDelete(b.positions, market)
            ELSE b.positions,
        !.krwBalance = RAdd(b.krwBalance, gainedKrw)]

\* a cycle suspended at the first await of runTradingCycle (line 111)
newCycle ==
    [pc |-> "signal", market |-> 1, signal |-> None, krwRead |-> None,
     order |-> None, faults |-> {}]

\* a cycle whose promise has settled: only how it ended is kept
settled(pc) ==
    [pc |-> pc, market |-> 0, signal |-> None, krwRead |-> None, order |-> None,
     faults |-> {}]

\* the catch of lines 248-250, then the await of lines 252-254
caught(c, fault) ==
    [c EXCEPT !.pc = "delay", !.signal = None, !.krwRead = None, !.order = None,
              !.faults = c.faults \cup {fault}]

toDelay(c) == [c EXCEPT !.pc = "delay", !.signal = None, !.krwRead = None, !.order = None]

cycleActive(c) == c.pc \notin {"done", "rejected"}

BotInit ==
    /\ setLedgerInit
    /\ lastCall = NoCall
    /\ sigIn = None
    /\ sigOut = None
    /\ run = idle
    /\ signalLogs = notConstructed
    /\ mock = notConstructed
    /\ \E api \in BotApiBalances :
         bot = [phase |-> "constructed", isRunningCycle |-> FALSE, interval |-> FALSE,
                krwBalance |-> I(0), apiBalance |-> api, positions |-> EmptyMap,
                cycles |-> << >>, lastTick |-> "none", lastFaults |-> {}]

botFrame == UNCHANGED <<ledgerVars, lastCall, sigIn, sigOut, run, signalLogs, mock>>

\* lines 86-92 and 99-101: the guarded start of a cycle, up to its first await
beginCycle(b) ==
    [b EXCEPT !.isRunningCycle = TRUE, !.cycles = Append(b.cycles, newCycle)]

\* start() lines 74-103, up to the first await of its cycle.  Nothing else runs
\* before the timer is set, so the two awaits of lines 78-79 are folded in;
\* initialize and the sync both catch a failed getAccounts.
Start ==
    /\ bot.phase = "constructed"
    /\ \E accounts \in {None, Some(bot.apiBalance)} :
         LET synced == [bot EXCEPT
                           !.krwBalance =
                               syncKrwBalanceFromAPI(bot.krwBalance, accounts).krwBalance,
                           !.phase = "started", !.interval = TRUE]
         IN  bot' = IF cycleMayStart(synced.isRunningCycle)
                    THEN beginCycle(synced) ELSE synced
    /\ botFrame

\* the callback of setInterval, lines 86-97
TimerTick ==
    /\ bot.interval
    /\ IF cycleMayStart(bot.isRunningCycle)
       THEN /\ Len(bot.cycles) < MaxCycles
            /\ bot' = [beginCycle(bot) EXCEPT !.lastTick = "started"]
       ELSE bot' = [bot EXCEPT !.lastTick = "skipped"]
    /\ botFrame

\* stop() lines 266-272
Stop ==
    /\ bot.interval
    /\ bot' = [bot EXCEPT !.interval = FALSE, !.phase = "stopped"]
    /\ botFrame

\* lines 110-111 resumed: determineSignalForMarket settles; on a value the entry
\* is built (113-121) and addSignalLog is awaited (122)
DetermineSignalForMarket(i) ==
    /\ bot.cycles[i].pc = "signal"
    /\ \/ bot' = [bot EXCEPT !.cycles[i] = caught(@, "evaluation")]
       \/ \E signal \in botSignals(targetMarkets[bot.cycles[i].market]) :
            bot' = [bot EXCEPT !.cycles[i] = [@ EXCEPT !.pc = "log",
                                                       !.signal = Some(signal)]]
    /\ botFrame

\* lines 122-206 resumed after addSignalLog: a write that failed inside
\* addSignalLog was only logged there, a failed mkdir throws.  A buy is sized
\* from the balance read now (140-143) and the order is awaited (152-157); a sell
\* is sized from the position read now (193-199) and awaited (208-213).
AfterAddSignalLog(i) ==
    /\ bot.cycles[i].pc = "log"
    /\ LET c == bot.cycles[i]
           signal == Get(c.signal)
           market == targetMarkets[c.market]
           investmentAmount ==
               determineInvestmentAmountForBuy(signal, bot.krwBalance,
                                               getPosition(bot, market))
           orderVolume == determineOrderVolumeForSell(signal, getPosition(bot, market))
       IN  \/ bot' = [bot EXCEPT !.cycles[i] = caught(@, "log")]
           \/ \E written \in BOOLEAN :
                LET d == IF written THEN c
                         ELSE [c EXCEPT !.faults = c.faults \cup {"log"}]
                IN  bot' =
                      [bot EXCEPT !.cycles[i] =
                          IF /\ signal.action = "buy"
                             /\ IsSome(investmentAmount)
                             /\ RGt(Get(investmentAmount), I(0))
                          THEN [d EXCEPT !.pc = "order",
                                         !.krwRead = Some(bot.krwBalance),
                                         !.order = Some([side |-> "bid",
                                                         size |-> Get(investmentAmount)])]
                          ELSE IF /\ signal.action = "sell"
                                  /\ IsSome(orderVolume)
                                  /\ RGt(Get(orderVolume), I(0))
                          THEN [d EXCEPT !.pc = "order",
                                         !.krwRead = Some(bot.krwBalance),
                                         !.order = Some([side |-> "ask",
                                                         size |-> Get(orderVolume)])]
                          ELSE toDelay(d)]
    /\ botFrame

\* lines 152-186 and 208-236 resumed: the order call throws, or returns an order
\* that executed nothing, or one that executed in full at the signal price (the
\* exchange's fee is taken as 0); an executed order is applied to the portfolio
ExecuteOrder(i) ==
    /\ bot.cycles[i].pc = "order"
    /\ LET c == bot.cycles[i]
           market == targetMarkets[c.market]
           price == Get(Get(c.signal).price)
           size == Get(c.order).size
       IN  \/ bot' = [bot EXCEPT !.cycles[i] = caught(@, "order")]
           \/ bot' = [bot EXCEPT !.cycles[i] = toDelay(@)]
           \/ LET applied ==
                      IF Get(c.order).side = "bid"
                      THEN [updatePositionAfterBuy(bot, market, price,
                                                   RDiv(size, price), size)
                               EXCEPT !.apiBalance = RSub(bot.apiBalance, size)]
                      ELSE [updatePositionAfterSell(bot, market, size,
                                                    RMul(size, price))
                               EXCEPT !.apiBalance =
                                          RAdd(bot.apiBalance, RMul(size, price))]
              IN  bot' = [applied EXCEPT !.cycles[i] = toDelay(@)]
    /\ botFrame

\* lines 252-256 resumed: the next market, or after the last one the final sync
Delay(i) ==
    /\ bot.cycles[i].pc = "delay"
    /\ LET c == bot.cycles[i]
       IN  bot' = [bot EXCEPT !.cycles[i] =
                      IF c.market < Len(targetMarkets)
                      THEN [c EXCEPT !.pc = "signal", !.market = c.market + 1]
                      ELSE [c EXCEPT !.pc = "sync"]]
    /\ botFrame

\* lines 256-262 resumed: the sync settles and runTradingCycle returns
SyncKrwBalance(i) ==
    /\ bot.cycles[i].pc = "sync"
    /\ \E accounts \in {None, Some(bot.apiBalance)} :
         LET r == syncKrwBalanceFromAPI(bot.krwBalance, accounts)
             c == IF IsSome(accounts) THEN bot.cycles[i]
                  ELSE [bot.cycles[i] EXCEPT
                           !.faults = bot.cycles[i].faults \cup {"sync"}]
         IN  bot' = IF r.thrown
                    THEN [bot EXCEPT !.cycles[i] = settled("rejected"),
                                     !.lastFaults = c.faults]
                    ELSE [bot EXCEPT !.krwBalance = r.krwBalance,
                                     !.cycles[i] = [c EXCEPT !.pc = "returned"]]
    /\ botFrame

\* lines 90 and 102: the caller resumes after await this.runTradingCycle()
ClearRunningCycle(i) ==
    /\ bot.cycles[i].pc = "returned"
    /\ bot' = [bot EXCEPT !.isRunningCycle = FALSE,
                          !.cycles[i] = settled("done"),
                          !.lastFaults = bot.cycles[i].faults]
    /\ botFrame

CycleStep ==
    \E i \in 1..MaxCycles :
        /\ bot.phase # "none"
        /\ i \in DOMAIN bot.cycles
        /\ \/ DetermineSignalForMarket(i)
           \/ AfterAddSignalLog(i)
           \/ ExecuteOrder(i)
           \/ Delay(i)
           \/ SyncKrwBalance(i)
           \/ ClearRunningCycle(i)

BotNext == Start \/ TimerTick \/ Stop \/ CycleStep

BotSpec == BotInit /\ [][BotNext]_vars

\* every awaited promise settles and its continuation is run
BotFairSpec == BotInit /\ [][BotNext]_vars /\ WF_vars(CycleStep)

activeCycles == {i \in DOMAIN bot.cycles : cycleActive(bot.cycles[i])}

\* C31: at most one trading cycle executes at any time, and between a cycle's
\* read of the balance for sizing an order and the application of that order no
\* other cycle has changed the balance: the sequence read balance, compute order
\* size, apply order is never interleaved with another cycle's.
C31_OneCycleAtATime ==
    bot.phase # "none" =>
        /\ Cardinality(activeCycles) <= 1
        /\ \A i \in DOMAIN bot.cycles :
              bot.cycles[i].pc = "order" => bot.cycles[i].krwRead = Some(bot.krwBalance)

\* a tick arrived while a cycle was waiting for its order, and started nothing
C31_Witness ==
    /\ bot.phase = "started"
    /\ bot.lastTick = "skipped"
    /\ Len(bot.cycles) = 1
    /\ bot.cycles[1].pc = "order"

-----------------------------------------------------------------------------
(* signalLog.service.ts: the log file of one market (LogSpec)              *)
(*                                                                         *)
(* The file is << >> while it does not exist and <<logs>> once written;    *)
(* JSON.stringify followed by JSON.parse gives back the same array of      *)
(* plain records, so the file holds the array itself.  A log is the record *)
(* of its market and its timestamp, and the calls come one after another,  *)
(* each with a later timestamp than the one before.                        *)

\* line 6
MAX_LOGS_PER_FILE == 500

MaxCalls == 502

\* file-system failures are drawn for these first calls only
MaxFaultyCalls == 3

\* lines 37-46: a missing file, a failed read and unparsable data all leave []
readLogs(file, readable) == IF readable /\ IsSome(file) THEN Get(file) ELSE << >>

\* lines 48-51 without the cut
keepNewest_Uncapped(logs, log) == <<log>> \o logs

\* lines 48-51: unshift, then slice(0, MAX_LOGS_PER_FILE)
keepNewest(logs, log) ==
    LET unshifted == <<log>> \o logs
    IN  IF Len(unshifted) > MAX_LOGS_PER_FILE
        THEN SubSeq(unshifted, 1, MAX_LOGS_PER_FILE) ELSE unshifted

\* lines 53-57: a failed write is logged and the file stays as it was
writeLogs(file, logs, writable) == IF writable THEN Some(logs) ELSE file

\* lines 32-58; the file after the call.  When ensureLogDirExists throws (line
\* 33) the call rejects before it touches the file.
addSignalLog(file, log, dirExists, readable, writable) ==
    IF ~dirExists THEN file
    ELSE writeLogs(file, keepNewest(readLogs(file, readable), log), writable)

\* lines 65-83; null is << >>, thrown tells whether the call rejects
getLatestSignalLog(file, dirExists, readable) ==
    IF ~dirExists THEN [thrown |-> TRUE, value |-> None]
    ELSE IF readable /\ IsSome(file) /\ Len(Get(file)) > 0
    THEN [thrown |-> FALSE, value |-> Some(Get(file)[1])]
    ELSE [thrown |-> FALSE, value |-> None]

signalLogOf(n) == [market |-> "KRW-BTC", timestamp |-> n]

LogInit ==
    /\ setLedgerInit
    /\ lastCall = NoCall
    /\ sigIn = None
    /\ sigOut = None
    /\ run = idle
    /\ bot = notConstructed
    /\ mock = notConstructed
    /\ signalLogs = [phase |-> "ready", file |-> None, added |-> 0, ioFailed |-> FALSE]

logFrame == UNCHANGED <<ledgerVars, sigIn, sigOut, run, bot, mock>>

IoOutcomes(faulty) == IF faulty THEN BOOLEAN ELSE {TRUE}

AddSignalLog ==
    /\ signalLogs.phase = "ready"
    /\ signalLogs.added < MaxCalls
    /\ \E dirExists, readable, writable \in IoOutcomes(signalLogs.added < MaxFaultyCalls) :
         /\ signalLogs' =
               [signalLogs EXCEPT
                   !.file = addSignalLog(signalLogs.file, signalLogOf(signalLogs.added + 1),
                                         dirExists, readable, writable),
                   !.added = signalLogs.added + 1,
                   !.ioFailed = signalLogs.ioFailed
                                    \/ ~(dirExists /\ readable /\ writable)]
         /\ lastCall' = [op |-> "addSignalLog", order |-> None, candle |-> None,
                         ret |-> None]
    /\ logFrame

GetLatestSignalLog ==
    /\ signalLogs.phase = "ready"
    /\ \E dirExists, readable \in BOOLEAN :
         lastCall' = [op |-> "getLatestSignalLog", order |-> None, candle |-> None,
                      readOk |-> dirExists /\ readable,
                      ret |-> getLatestSignalLog(signalLogs.file, dirExists, readable)]
    /\ UNCHANGED signalLogs
    /\ logFrame

LogNext == AddSignalLog \/ GetLatestSignalLog

LogSpec == LogInit /\ [][LogNext]_vars

storedLogs == IF IsSome(signalLogs.file) THEN Get(signalLogs.file) ELSE << >>

Min(a, b) == IF a < b THEN a ELSE b

\* the stored list is the min(added, 500) latest logs, newest first
holdsLatest ==
    /\ Len(storedLogs) = Min(signalLogs.added, MAX_LOGS_PER_FILE)
    /\ \A k \in 1..Len(storedLogs) :
          storedLogs[k] = signalLogOf(signalLogs.added - k + 1)

latestReturned ==
    (lastCall.op = "getLatestSignalLog" /\ lastCall.readOk /\ signalLogs.added > 0)
        => lastCall.ret = [thrown |-> FALSE, value |-> Some(signalLogOf(signalLogs.added))]

-----------------------------------------------------------------------------
(* MockUpbitAPI (part_007): createOrder and cancelOrder on the mock        *)
(* exchange (MockSpec)                                                     *)
(*                                                                         *)
(* mockBalances is a Map currency -> account, mockTickers a Map market ->  *)
(* trade_price, mockOrders the array of orders; the uuid of an order is    *)
(* its index in mockOrders (uuidv4 gives every order a fresh one).         *)

\* config.upbit.feeRate (config.ts line 32)
mockFeeRate == Num(5, 10000)

\* config.upbit.volumePrecision (config.ts line 35)
volumePrecision == 8

\* line 83
initialKrwBalance == 10000000

MaxOrders == 2

\* the markets the mock was built for (config.trading.targetMarkets)
MOCK_MARKETS == {"KRW-BTC"}

MockPrices == {I(500), I(1000)}

RECURSIVE Pow10(_)
Pow10(k) == IF k = 0 THEN 1 ELSE 10 * Pow10(k - 1)

\* parseFloat(x.toFixed(digits))
toFixed(x, digits) == RDiv(RRound(RMul(x, I(Pow10(digits)))), I(Pow10(digits)))

\* market.split("-")[1]
coinCurrencyOf(market) == IF market = "KRW-BTC" THEN "BTC" ELSE "ETH"

\* lines 81-104
initializeMockData(price) ==
    [phase |-> "ready",
     mockBalances |-> [c \in {"KRW"} \cup {coinCurrencyOf(market) : market \in MOCK_MARKETS} |->
                          [balance |-> IF c = "KRW" THEN I(initialKrwBalance) ELSE I(0),
                           avg_buy_price |-> I(0)]],
     mockTickers |-> [market \in MOCK_MARKETS |-> price],
     mockOrders |-> << >>]

\* the orders handed to createOrder: price and volume are the optional strings
\* of an Order, read with parseFloat(x || "0")
MockOrderInputs ==
    {[market |-> market, side |-> "bid", ord_type |-> "price", price |-> price,
      volume |-> None] : market \in Markets, price \in {Some(Num(10005, 2)), Some(I(600))}}
    \cup
    {[market |-> "KRW-BTC", side |-> side, ord_type |-> "limit", price |-> Some(I(600)),
      volume |-> volume] : side \in {"bid", "ask"}, volume \in {None, Some(I(10))}}
    \cup
    {[market |-> "KRW-BTC", side |-> side, ord_type |-> "market", price |-> None,
      volume |-> Some(I(10))] : side \in {"bid", "ask"}}

\* lines 359-367, 386-394: the coin account after a buy
boughtInto(coinAccount, price, executed_volume) ==
    LET newTotalVolume == RAdd(coinAccount.balance, executed_volume)
    IN  [balance |-> newTotalVolume,
         avg_buy_price |-> RDiv(RAdd(RMul(coinAccount.avg_buy_price, coinAccount.balance),
                                     RMul(price, executed_volume)),
                                newTotalVolume)]

noExecution(balances) ==
    [thrown |-> FALSE, executed_volume |-> I(0), executed_funds |-> I(0),
     paid_fee |-> I(0), mockBalances |-> balances]

orderRefused(balances) ==
    [thrown |-> TRUE, executed_volume |-> I(0), executed_funds |-> I(0),
     paid_fee |-> I(0), mockBalances |-> balances]

\* lines 346-409: a buy
executeBid(balances, coin, ord_type, orderPrice, orderVolume, currentMarketPrice) ==
    LET krw == balances["KRW"]
    IN  IF ord_type = "price"
        THEN IF RLt(orderPrice, I(minOrderAmountKRW)) \/ RLt(krw.balance, orderPrice)
             THEN orderRefused(balances)
             ELSE LET actualCoinPurchaseCost == RDiv(orderPrice, RAdd(I(1), mockFeeRate))
                      executed_volume ==
                          toFixed(RDiv(actualCoinPurchaseCost, currentMarketPrice),
                                  volumePrecision)
                  IN  [thrown |-> FALSE, executed_volume |-> executed_volume,
                       executed_funds |-> actualCoinPurchaseCost,
                       paid_fee |-> RSub(orderPrice, actualCoinPurchaseCost),
                       mockBalances |->
                           [balances EXCEPT
                               !["KRW"].balance = RSub(krw.balance, orderPrice),
                               ![coin] = boughtInto(balances[coin], currentMarketPrice,
                                                    executed_volume)]]
        ELSE IF ord_type = "limit"
        THEN IF \/ RLt(RMul(orderPrice, orderVolume), I(minOrderAmountKRW))
                \/ RLt(krw.balance, RMul(RMul(orderPrice, orderVolume),
                                         RAdd(I(1), mockFeeRate)))
             THEN orderRefused(balances)
             ELSE IF RLe(currentMarketPrice, orderPrice)
             THEN LET executed_funds == RMul(orderPrice, orderVolume)
                      paid_fee == RMul(executed_funds, mockFeeRate)
                  IN  [thrown |-> FALSE, executed_volume |-> orderVolume,
                       executed_funds |-> executed_funds, paid_fee |-> paid_fee,
                       mockBalances |->
                           [balances EXCEPT
                               !["KRW"].balance =
                                   RSub(krw.balance, RAdd(executed_funds, paid_fee)),
                               ![coin] = boughtInto(balances[coin], orderPrice,
                                                    orderVolume)]]
             ELSE noExecution(balances)
        ELSE orderRefused(balances)

\* lines 410-447: a sell
executeAsk(balances, coin, ord_type, orderPrice, orderVolume, currentMarketPrice) ==
    LET krw == balances["KRW"]
        sold(price) ==
            LET executed_funds == RMul(price, orderVolume)
                paid_fee == RMul(executed_funds, mockFeeRate)
            IN  [thrown |-> FALSE, executed_volume |-> orderVolume,
                 executed_funds |-> executed_funds, paid_fee |-> paid_fee,
                 mockBalances |->
                     [balances EXCEPT
                         ![coin].balance = RSub(balances[coin].balance, orderVolume),
                         !["KRW"].balance =
                             RAdd(krw.balance, RSub(executed_funds, paid_fee))]]
    IN  IF RLt(balances[coin].balance, orderVolume) THEN orderRefused(balances)
        ELSE IF ord_type = "market"
        THEN IF RLt(RMul(currentMarketPrice, orderVolume), I(minOrderAmountKRW))
             THEN orderRefused(balances)
             ELSE sold(currentMarketPrice)
        ELSE IF ord_type = "limit"
        THEN IF RLt(RMul(orderPrice, orderVolume), I(minOrderAmountKRW))
             THEN orderRefused(balances)
             ELSE IF RGe(currentMarketPrice, orderPrice) THEN sold(orderPrice)
             ELSE noExecution(balances)
        ELSE orderRefused(balances)

\* line 459
statusAtCreation(executed_volume) == IF RGt(executed_volume, I(0)) THEN "done" ELSE "wait"

\* lines 301-485: the mock after the call, whether it threw, and the state it
\* returned (MockUpbitAPI.createOrder)
mockCreateOrder(m, order) ==
    LET orderPrice == OrDefault(order.price, I(0))
        orderVolume == OrDefault(order.volume, I(0))
        coin == coinCurrencyOf(order.market)
        hasTicker == MapHas(m.mockTickers, order.market)
        currentMarketPrice ==
            IF hasTicker /\ Truthy(m.mockTickers[order.market])
            THEN m.mockTickers[order.market] ELSE orderPrice
        balances ==
            IF ~MapHas(m.mockBalances, coin) /\ order.side = "bid"
            THEN MapSet(m.mockBalances, coin, [balance |-> I(0), avg_buy_price |-> I(0)])
            ELSE m.mockBalances
        r == IF order.side = "bid"
             THEN executeBid(balances, coin, order.ord_type, orderPrice, orderVolume,
                             currentMarketPrice)
             ELSE executeAsk(balances, coin, order.ord_type, orderPrice, orderVolume,
                             currentMarketPrice)
    IN  IF ~hasTicker /\ order.ord_type \in {"price", "market", "limit"}
        THEN [mock |-> m, thrown |-> TRUE, state |-> None]
        ELSE IF ~MapHas(m.mockBalances, "KRW")
        THEN [mock |-> m, thrown |-> TRUE, state |-> None]
        ELSE IF ~MapHas(balances, coin)
        THEN [mock |-> m, thrown |-> TRUE, state |-> None]
        ELSE IF r.thrown
        THEN [mock |-> [m EXCEPT !.mockBalances = balances], thrown |-> TRUE,
              state |-> None]
        ELSE LET newMockOrder ==
                     [uuid |-> Len(m.mockOrders) + 1, market |-> order.market,
                      side |-> order.side, price |-> orderPrice, volume |-> orderVolume,
                      executed_volume |-> r.executed_volume,
                      executed_funds |-> r.executed_funds, paid_fee |-> r.paid_fee,
                      status |-> statusAtCreation(r.executed_volume),
                      ord_type |-> order.ord_type]
             IN  [mock |-> [m EXCEPT !.mockBalances = r.mockBalances,
                                     !.mockOrders = Append(m.mockOrders, newMockOrder)],
                  thrown |-> FALSE, state |-> Some(newMockOrder.status)]

\* cancelOrder without the test of line 494
cancelOrder_AnyStatus(m, uuid) ==
    IF uuid \notin DOMAIN m.mockOrders THEN [mock |-> m, thrown |-> TRUE, state |-> None]
    ELSE [mock |-> [m EXCEPT !.mockOrders[uuid].status = "cancel"], thrown |-> FALSE,
          state |-> Some("cancel")]

\* lines 487-518
cancelOrder(m, uuid) ==
    IF uuid \notin DOMAIN m.mockOrders THEN [mock |-> m, thrown |-> TRUE, state |-> None]
    ELSE IF m.mockOrders[uuid].status # "wait"
    THEN [mock |-> m, thrown |-> TRUE, state |-> None]
    ELSE [mock |-> [m EXCEPT !.mockOrders[uuid].status = "cancel"], thrown |-> FALSE,
          state |-> Some("cancel")]

MockInit ==
    /\ setLedgerInit
    /\ lastCall = NoCall
    /\ sigIn = None
    /\ sigOut = None
    /\ run = idle
    /\ bot = notConstructed
    /\ signalLogs = notConstructed
    /\ \E price \in MockPrices : mock = initializeMockData(price)

mockFrame == UNCHANGED <<ledgerVars, sigIn, sigOut, run, bot, signalLogs>>

CreateOrder ==
    /\ mock.phase = "ready"
    /\ Len(mock.mockOrders) < MaxOrders
    /\ \E order \in MockOrderInputs :
         LET r == mockCreateOrder(mock, order)
         IN  /\ mock' = r.mock
             /\ lastCall' = [op |-> "createOrder", order |-> Some(order), candle |-> None,
                             uuid |-> None, thrown |-> r.thrown, ret |-> r.state]
    /\ mockFrame

CancelOrder ==
    /\ mock.phase = "ready"
    /\ \E uuid \in 1..(MaxOrders + 1) :
         LET r == cancelOrder(mock, uuid)
         IN  /\ mock' = r.mock
             /\ lastCall' = [op |-> "cancelOrder", order |-> None, candle |-> None,
                             uuid |-> Some(uuid), thrown |-> r.thrown, ret |-> r.state]
    /\ mockFrame

\* the callback of startPriceFluctuation: the ticker moves, the orders are not
\* looked at
PriceFluctuation ==
    /\ mock.phase = "ready"
    /\ \E price \in MockPrices :
         mock' = [mock EXCEPT !.mockTickers["KRW-BTC"] = price]
    /\ lastCall' = [op |-> "priceFluctuation", order |-> None, candle |-> None,
                    uuid |-> None, thrown |-> FALSE, ret |-> None]
    /\ mockFrame

MockNext == CreateOrder \/ CancelOrder \/ PriceFluctuation

MockSpec == MockInit /\ [][MockNext]_vars

\* the step is a createOrder that stored a new order
orderCreated ==
    /\ lastCall'.op = "createOrder"
    /\ Len(mock'.mockOrders) = Len(mock.mockOrders) + 1

\* the step is a cancelOrder(uuid) that did not throw
orderCancelled(uuid) ==
    /\ lastCall'.op = "cancelOrder"
    /\ lastCall'.uuid = Some(uuid)
    /\ ~lastCall'.thrown

C39_Step ==
    mock.phase = "ready" =>
        /\ orderCreated =>
              LET new == mock'.mockOrders[Len(mock'.mockOrders)]
              IN  /\ new.status = "done" <=> RGt(new.executed_volume, I(0))
                  /\ new.status = "wait" <=> ~RGt(new.executed_volume, I(0))
                  /\ lastCall'.ret = Some(new.status)
        /\ \A uuid \in DOMAIN mock.mockOrders :
              /\ uuid \in DOMAIN mock'.mockOrders
              /\ mock'.mockOrders[uuid] # mock.mockOrders[uuid] =>
                    /\ mock.mockOrders[uuid].status = "wait"
                    /\ mock'.mockOrders[uuid] =
                          [mock.mockOrders[uuid] EXCEPT !.status = "cancel"]
                    /\ orderCancelled(uuid)
        /\ \A uuid \in DOMAIN mock.mockOrders :
              (/\ lastCall'.op = "cancelOrder"
               /\ lastCall'.uuid = Some(uuid)
               /\ mock.mockOrders[uuid].status \in {"done", "cancel"})
                  => lastCall'.thrown /\ mock' = mock

\* C39: an order is created done if and only if it executed volume at creation
\* and wait otherwise; afterwards an order changes only from wait to cancel, and
\* only through a cancelOrder of it; cancelOrder on an order that is done or
\* cancelled throws and changes no order and no balance.
C39_OrderStates == [][C39_Step]_vars

\* a done order and a cancelled one are stored, and the last call, a cancelOrder
\* of the done order, threw
C39_Witness ==
    /\ mock.phase = "ready"
    /\ Len(mock.mockOrders) = 2
    /\ mock.mockOrders[1].status = "done"
    /\ mock.mockOrders[2].status = "cancel"
    /\ lastCall.op = "cancelOrder"
    /\ lastCall.uuid = Some(1)
    /\ lastCall.thrown

====
